---- MODULE Spec2Model ----
(***************************************************************************)
(* Simulation lifecycle and turn orchestration of the MAIS backend:        *)
(*   app/simulations/manager.py   SimulationManager (the registry)         *)
(*   app/simulations/state.py     SimulationState (run state + event bus)  *)
(*   app/simulations/runner.py    run_simulation, _stream_one_turn         *)
(*   app/api/simulations.py       the HTTP handlers that call them         *)
(*                                                                         *)
(* The event loop is single threaded and cooperative: a task runs from one *)
(* suspension point to the next without interleaving.  The suspension      *)
(* points of the background task are: its creation (first step pending),   *)
(* asyncio.sleep in the orphan wait, the token stream of a turn, and the   *)
(* shielded publish of the cancellation handler.  Every other position of  *)
(* the task is inside an atomic section: while a task is there, nothing    *)
(* else runs (see Busy).                                                   *)
(***************************************************************************)
EXTENDS Integers, Sequences, FiniteSets, TLC

\* ------------------------------------------------------------------ bounds
MaxSims == 2          \* simulations created in one behaviour (registry spec)
MaxActors == 2        \* actors of a request (the code allows 2..4)
MaxTurnLimit == 2     \* turn_limit of a request (the code allows 1..40)
MaxFrequency == 2     \* frequency_turns of a facilitator (the code allows 1..20)
MaxTokens == 1        \* chunks one token stream yields
MaxSinks == 2         \* sinks (asyncio.Queue) created in one behaviour (bus spec)
MaxStops == 2         \* stop calls on one simulation (bus spec)
RunSinks == 1         \* sinks created in one behaviour (run spec)
RunStops == 1         \* stop calls on one simulation (run spec)
GraceTicks == 1       \* orphan_grace_seconds, in clock ticks

LongTurnLimit == 3    \* turn_limit of a request of the rounds spec (above MinActors)

MinActors == 2        \* StartSimulationRequest.agents min_length

Modes == {"debate", "collaboration", "interaction", "custom"}

\* ModeratorConfig / SynthesizerConfig: enabled, model (set or None),
\* frequency_turns.
FacilitatorConfigs ==
    { f \in [enabled : BOOLEAN, model : BOOLEAN, frequency_turns : 1..MaxFrequency] :
        /\ (~f.enabled => ~f.model)
        /\ (~f.model => f.frequency_turns = 1) }

NoFacilitator == [enabled |-> FALSE, model |-> FALSE, frequency_turns |-> 1]
AFacilitator == [enabled |-> TRUE, model |-> TRUE, frequency_turns |-> 1]

\* StartSimulationRequest, reduced to what the scheduler reads.
\*   reject       one of the caps of run_simulation's pre-flight is exceeded
\*   long_prompt  index of the first actor whose system prompt exceeds
\*                settings.max_prompt_chars (0: none)
RequestSpace ==
    [mode : Modes, n_agents : MinActors..MaxActors, turn_limit : 1..MaxTurnLimit,
     synthesizer : FacilitatorConfigs, moderator : FacilitatorConfigs,
     reject : BOOLEAN, long_prompt : 0..MaxActors]

\* The requests of the run specification.  A facilitator is configured in
\* every way in the mode that activates it (synthesizer: collaboration,
\* moderator: debate) and in one way in the other modes; a request over a cap
\* is otherwise plain.
Requests ==
    { r \in RequestSpace :
        /\ r.long_prompt <= r.n_agents
        /\ ~(r.synthesizer.enabled /\ r.moderator.enabled)
        /\ (r.mode # "collaboration" => r.synthesizer \in {NoFacilitator, AFacilitator})
        /\ (r.mode # "debate" => r.moderator \in {NoFacilitator, AFacilitator})
        /\ (r.mode = "custom" => r.synthesizer = NoFacilitator /\ r.moderator = NoFacilitator)
        /\ (r.reject \/ r.long_prompt > 0 =>
                /\ r.mode = "interaction" /\ r.turn_limit = MaxTurnLimit
                /\ r.synthesizer = NoFacilitator /\ r.moderator = NoFacilitator)
        /\ (r.reject => r.long_prompt = 0 /\ r.n_agents = MinActors) }

\* The requests of the registry specification: plain two-actor runs.
RegistryRequests ==
    { r \in RequestSpace : /\ r.n_agents = MinActors /\ r.turn_limit = 1
                       /\ r.mode = "interaction" /\ ~r.reject /\ r.long_prompt = 0
                       /\ r.synthesizer = NoFacilitator /\ r.moderator = NoFacilitator }

\* The requests of the rounds specification: two actors, a turn limit that one
\* pass over the actors does not use up, and the facilitator of the mode
\* scheduled after every pass.
RoundsRequests ==
    { [mode |-> m, n_agents |-> MinActors, turn_limit |-> LongTurnLimit,
       synthesizer |-> IF m = "collaboration" THEN AFacilitator ELSE NoFacilitator,
       moderator |-> IF m = "debate" THEN AFacilitator ELSE NoFacilitator,
       reject |-> FALSE, long_prompt |-> 0] : m \in {"collaboration", "debate"} }

\* The requests of the cadence specification: as RoundsRequests, with the
\* facilitator of the mode scheduled at frequency_turns = MaxFrequency.
CadenceRequests ==
    { [mode |-> m, n_agents |-> MinActors, turn_limit |-> LongTurnLimit,
       synthesizer |-> IF m = "collaboration"
                       THEN [AFacilitator EXCEPT !.frequency_turns = MaxFrequency]
                       ELSE NoFacilitator,
       moderator |-> IF m = "debate"
                     THEN [AFacilitator EXCEPT !.frequency_turns = MaxFrequency]
                     ELSE NoFacilitator,
       reject |-> FALSE, long_prompt |-> 0] : m \in {"collaboration", "debate"} }

\* ------------------------------------------------------------------- state
VARIABLES
    request,          \* SimulationManager._sims: id -> SimulationState.request
    cancel_event,     \* SimulationState.cancel_event
    finished_event,   \* SimulationState.finished_event
    transcript,       \* SimulationState.transcript: <<>> is None, <<msgs>> is set
    pc,               \* SimulationState.task: position of the background task
    cancel_req,       \* Task.cancel() requested and not yet delivered
    subscribers,      \* SimulationState.subscribers: set of sink handles
    age,              \* ticks since SimulationState.last_subscriber_change
    wait_age,         \* ticks since start_wait of the orphan wait
    run,              \* the locals of run_simulation / _stream_one_turn
    queue,            \* handle -> [sim, items]: the asyncio.Queue of each sink
    published,        \* per simulation: every event handed to publish, in order
    finished_sets,    \* per simulation: calls of finished_event.set()
    transcript_writes,\* per simulation: assignments of state.transcript
    stop_calls,       \* per simulation: calls of stop
    idle_enabled,     \* settings.env != "test" and settings.orphan_grace_seconds > 0
    response          \* the result of the last API / manager call

vars == <<request, cancel_event, finished_event, transcript, pc, cancel_req,
          subscribers, age, wait_age, run, queue, published, finished_sets,
          transcript_writes, stop_calls, idle_enabled, response>>

Sims == DOMAIN request
Handles == DOMAIN queue

\* Positions at which the background task is suspended (or finished): other
\* coroutines run only while every task is at one of them.
SuspendedPcs == {"created", "orphan_sleep", "stream", "shield", "shield_resume", "done"}

Busy == \E s \in Sims : pc[s] \notin SuspendedPcs

\* asyncio.Task.done()
task_done(s) == pc[s] = "done"

\* ------------------------------------------------------------------ events
StatusEvent(st) ==
    [type |-> "status", status |-> st, turn |-> 0, role |-> "", agent_id |-> 0]
TypingEvent(t, aid) ==
    [type |-> "status", status |-> "typing", turn |-> t, role |-> "", agent_id |-> aid]
TokenEvent(t, role, aid) ==
    [type |-> "token", status |-> "", turn |-> t, role |-> role, agent_id |-> aid]
MessageEvent(t, role, aid) ==
    [type |-> "message", status |-> "", turn |-> t, role |-> role, agent_id |-> aid]
ErrorEvent ==
    [type |-> "error", status |-> "", turn |-> 0, role |-> "", agent_id |-> 0]

\* TranscriptMessage (name, model and content follow from role and agent_id)
TranscriptMessage(role, aid, t) == [role |-> role, agent_id |-> aid, turn |-> t]

\* The maxsize of the asyncio.Queue that subscribe creates: `asyncio.Queue()`
\* takes the default, 0, which asyncio reads as "no limit".
QueueMaxsize == 0

\* asyncio.Queue.full()
full(items) == QueueMaxsize > 0 /\ Len(items) >= QueueMaxsize

\* The loop body of publish for one sink and a sequence of events:
\* put_nowait, with QueueFull swallowed (the event is dropped for this sink).
RECURSIVE put_nowait(_, _)
put_nowait(items, evs) ==
    IF evs = <<>> THEN items
    ELSE put_nowait(IF full(items) THEN items ELSE Append(items, Head(evs)), Tail(evs))

\* publish that iterates over every queue ever handed out for the simulation
\* instead of the registered ones.
publish_ToEverySink(s, evs) ==
    /\ published' = [published EXCEPT ![s] = @ \o evs]
    /\ queue' = [h \in Handles |->
                    IF queue[h].sim = s
                    THEN [queue[h] EXCEPT !.items = put_nowait(@, evs)]
                    ELSE queue[h]]

\* publish that hands every event to each registered sink twice.
publish_Redelivers(s, evs) ==
    /\ published' = [published EXCEPT ![s] = @ \o evs]
    /\ queue' = [h \in Handles |->
                    IF h \in subscribers[s]
                    THEN [queue[h] EXCEPT !.items = put_nowait(@, evs \o evs)]
                    ELSE queue[h]]

\* SimulationState.publish, for a sequence of events published back to back
\* with no suspension in between: put_nowait on every registered sink.
publish(s, evs) ==
    /\ published' = [published EXCEPT ![s] = @ \o evs]
    /\ queue' = [h \in Handles |->
                    IF h \in subscribers[s]
                    THEN [queue[h] EXCEPT !.items = put_nowait(@, evs)]
                    ELSE queue[h]]

\* ------------------------------------------------------ termination payload
\* The full output of a turn, reduced to what _parse_termination_payload reads:
\*   blank      nothing but whitespace
\*   fenced     starts with a code fence
\*   span       the text between the first "{" and the last "}": there is
\*              none, or it is not valid JSON, or it decodes to an object
\*   terminate  the object's "terminate" entry
\*   message    the object's "message" entry: a string, something else, absent
Texts ==
    { t \in [blank : BOOLEAN, fenced : BOOLEAN, span : {"none", "invalid", "valid"},
             terminate : {"absent", "true", "false"},
             message : {"absent", "string", "other"}] :
        /\ (t.blank => ~t.fenced /\ t.span = "none")
        /\ (t.span # "valid" => t.terminate = "absent" /\ t.message = "absent") }

\* An output that is plain prose, and the placeholder for "no output yet".
PlainText == [blank |-> FALSE, fenced |-> FALSE, span |-> "none",
              terminate |-> "absent", message |-> "absent"]
NoText == [blank |-> TRUE, fenced |-> FALSE, span |-> "none",
           terminate |-> "absent", message |-> "absent"]

\* (text or "").strip(): the empty string, or the text trimmed.
stripped(t) == IF t.blank THEN "empty" ELSE "original"

\* _parse_termination_payload (runner.py:28-57; prompts.py:15-44 is the same
\* function).  Stripping the fence leaves the brace span where it was, so the
\* search finds the same span with and without it.
parse_termination_payload(t) ==
    IF t.blank THEN [terminate |-> FALSE, message |-> "empty"]
    ELSE IF t.span = "none" THEN [terminate |-> FALSE, message |-> stripped(t)]
    ELSE IF t.span = "invalid" THEN [terminate |-> FALSE, message |-> stripped(t)]
    ELSE [terminate |-> (t.terminate = "true"),
          message |-> IF t.message = "string" THEN "field" ELSE stripped(t)]

\* ---------------------------------------------------------- message context
\* The message array of a turn, reduced to the kind of each message and the
\* transcript entries (by position) whose content it carries:
\*   system  SystemMessage     self  AIMessage     other  HumanMessage
\* The opening prompt "Let's begin." is an other message that carries no entry.
ContextMessage(kind, from) == [kind |-> kind, from |-> from]

\* is_self_message of _build_messages_for_turn
is_self_message(m, role, self_agent_id) ==
    m.role = role /\ m.agent_id = self_agent_id

\* flush_other of _build_messages_for_turn: acc holds msgs and other_lines.
flush_other(acc) ==
    IF acc.other_lines = <<>> THEN acc
    ELSE [msgs |-> Append(acc.msgs, ContextMessage("other", acc.other_lines)),
          other_lines |-> <<>>]

\* The loop with every other-speaker entry flushed as a message of its own.
RECURSIVE build_loop_Unmerged(_, _, _, _, _)
build_loop_Unmerged(role, self_agent_id, entries, i, acc) ==
    IF i > Len(entries) THEN acc
    ELSE build_loop_Unmerged(role, self_agent_id, entries, i + 1,
            IF is_self_message(entries[i], role, self_agent_id)
            THEN [msgs |-> Append(acc.msgs, ContextMessage("self", <<i>>)),
                  other_lines |-> <<>>]
            ELSE [msgs |-> Append(acc.msgs, ContextMessage("other", <<i>>)),
                  other_lines |-> <<>>])

\* `for m in transcript` of _build_messages_for_turn (runner.py:181-195),
\* from entry i on.
RECURSIVE build_loop(_, _, _, _, _)
build_loop(role, self_agent_id, entries, i, acc) ==
    IF i > Len(entries) THEN acc
    ELSE build_loop(role, self_agent_id, entries, i + 1,
            IF is_self_message(entries[i], role, self_agent_id)
            THEN [msgs |-> Append(flush_other(acc).msgs, ContextMessage("self", <<i>>)),
                  other_lines |-> <<>>]
            ELSE [acc EXCEPT !.other_lines = Append(@, i)])

\* _build_messages_for_turn (runner.py:139-206)
build_messages_for_turn(role, self_agent_id, entries) ==
    LET start == [msgs |-> <<ContextMessage("system", <<>>)>>, other_lines |-> <<>>]
        msgs == flush_other(build_loop(role, self_agent_id, entries, 1, start)).msgs
    IN  IF Len(msgs) = 1 THEN Append(msgs, ContextMessage("other", <<>>)) ELSE msgs

\* ----------------------------------------------------------- initial state
\* The locals of run_simulation (runner.py:340-348) and of the turn in flight.
InitRun ==
    [actor_turns |-> 0, turn |-> 0, executed_agents |-> 0, agent_idx |-> 0,
     collaboration_rounds |-> 0, terminated_early |-> FALSE, synth_concluded |-> FALSE,
     messages |-> <<>>,
     role |-> "", agent_id |-> 0, site |-> "", tokens |-> 0, terminate |-> FALSE,
     final_call |-> FALSE, exc |-> "none", in_try |-> FALSE,
     full |-> NoText, final_content |-> "", context |-> <<>>]

NoResponse == [op |-> "none", id |-> 0, ok |-> TRUE]

Init ==
    /\ request = <<>>
    /\ cancel_event = <<>>
    /\ finished_event = <<>>
    /\ transcript = <<>>
    /\ pc = <<>>
    /\ cancel_req = <<>>
    /\ subscribers = <<>>
    /\ age = <<>>
    /\ wait_age = <<>>
    /\ run = <<>>
    /\ queue = <<>>
    /\ published = <<>>
    /\ finished_sets = <<>>
    /\ transcript_writes = <<>>
    /\ stop_calls = <<>>
    /\ idle_enabled \in BOOLEAN
    /\ response = NoResponse

\* ---------------------------------------------------------------- registry
\* has_active that takes a simulation whose cancellation signal is set for
\* inactive.
has_active_UntilCancelled ==
    \E s \in Sims : pc[s] # "none" /\ ~finished_event[s] /\ ~cancel_event[s]

\* SimulationManager.has_active
has_active ==
    \E s \in Sims : pc[s] # "none" /\ ~finished_event[s]

\* POST /simulations, accepted: has_active() is false, so manager.create
\* stores a fresh SimulationState and manager.start creates the task.  Neither
\* suspends, so the check and the launch are one step of the event loop.
StartSimulation(r, limit) ==
    /\ ~Busy
    /\ Len(request) < limit
    /\ ~has_active
    /\ request' = Append(request, r)
    /\ cancel_event' = Append(cancel_event, FALSE)
    /\ finished_event' = Append(finished_event, FALSE)
    /\ transcript' = Append(transcript, <<>>)
    /\ pc' = Append(pc, "created")
    /\ cancel_req' = Append(cancel_req, FALSE)
    /\ subscribers' = Append(subscribers, {})
    /\ age' = Append(age, 0)
    /\ wait_age' = Append(wait_age, 0)
    /\ run' = Append(run, InitRun)
    /\ published' = Append(published, <<>>)
    /\ finished_sets' = Append(finished_sets, 0)
    /\ transcript_writes' = Append(transcript_writes, 0)
    /\ stop_calls' = Append(stop_calls, 0)
    /\ response' = [op |-> "start", id |-> Len(request) + 1, ok |-> TRUE]
    /\ UNCHANGED <<queue, idle_enabled>>

\* POST /simulations, refused with 409: a simulation is already running.
StartSimulationRefused ==
    /\ ~Busy
    /\ has_active
    /\ response' = [op |-> "start", id |-> 0, ok |-> FALSE]
    /\ UNCHANGED <<request, cancel_event, finished_event, transcript, pc, cancel_req,
                   subscribers, age, wait_age, run, queue, published, finished_sets,
                   transcript_writes, stop_calls, idle_enabled>>

\* SimulationManager.stop for an id the registry does not hold.
StopAbsent(id) ==
    /\ ~Busy
    /\ id \notin Sims
    /\ response' = [op |-> "stop", id |-> id, ok |-> FALSE]
    /\ UNCHANGED <<request, cancel_event, finished_event, transcript, pc, cancel_req,
                   subscribers, age, wait_age, run, queue, published, finished_sets,
                   transcript_writes, stop_calls, idle_enabled>>

\* Stop that also discards the finalized transcript of the run.
Stop_ClearsTranscript(id, stops) ==
    /\ ~Busy
    /\ id \in Sims
    /\ stop_calls[id] < stops
    /\ stop_calls' = [stop_calls EXCEPT ![id] = @ + 1]
    /\ cancel_event' = [cancel_event EXCEPT ![id] = TRUE]
    /\ publish(id, <<StatusEvent("stopping")>>)
    /\ cancel_req' = [cancel_req EXCEPT ![id] =
                        IF pc[id] # "none" /\ ~task_done(id) THEN TRUE ELSE @]
    /\ transcript' = [transcript EXCEPT ![id] = <<>>]
    /\ response' = [op |-> "stop", id |-> id, ok |-> TRUE]
    /\ UNCHANGED <<request, finished_event, pc, subscribers, age, wait_age,
                   run, finished_sets, transcript_writes, idle_enabled>>

\* Stop that sets the flag and publishes, and never cancels the task.
Stop_FlagOnly(id, stops) ==
    /\ ~Busy
    /\ id \in Sims
    /\ stop_calls[id] < stops
    /\ stop_calls' = [stop_calls EXCEPT ![id] = @ + 1]
    /\ cancel_event' = [cancel_event EXCEPT ![id] = TRUE]
    /\ publish(id, <<StatusEvent("stopping")>>)
    /\ response' = [op |-> "stop", id |-> id, ok |-> TRUE]
    /\ UNCHANGED <<request, finished_event, transcript, pc, cancel_req, subscribers, age,
                   wait_age, run, finished_sets, transcript_writes, idle_enabled>>

\* SimulationManager.stop for a stored id: sets the cancellation signal,
\* publishes status{stopping}, cancels the task unless it is done; returns True.
Stop(id, stops) ==
    /\ ~Busy
    /\ id \in Sims
    /\ stop_calls[id] < stops
    /\ stop_calls' = [stop_calls EXCEPT ![id] = @ + 1]
    /\ cancel_event' = [cancel_event EXCEPT ![id] = TRUE]
    /\ publish(id, <<StatusEvent("stopping")>>)
    /\ cancel_req' = [cancel_req EXCEPT ![id] =
                        IF pc[id] # "none" /\ ~task_done(id) THEN TRUE ELSE @]
    /\ response' = [op |-> "stop", id |-> id, ok |-> TRUE]
    /\ UNCHANGED <<request, finished_event, transcript, pc, subscribers, age, wait_age,
                   run, finished_sets, transcript_writes, idle_enabled>>

\* start that launches a task whether or not the state already has one.
start_Relaunches(s) ==
    /\ ~Busy
    /\ s \in Sims
    /\ pc' = [pc EXCEPT ![s] = "created"]
    /\ cancel_req' = [cancel_req EXCEPT ![s] = FALSE]
    /\ response' = [op |-> "start_task", id |-> s, ok |-> TRUE]
    /\ UNCHANGED <<request, cancel_event, finished_event, transcript, subscribers, age,
                   wait_age, run, queue, published, finished_sets, transcript_writes,
                   stop_calls, idle_enabled>>

\* SimulationManager.start on a stored state (manager.py:36-70): returns at
\* once when state.task is set, else creates the task.  Every stored state
\* has its task, start_simulation having called start right after create.
start(s) ==
    /\ ~Busy
    /\ s \in Sims
    /\ IF pc[s] # "none"
       THEN UNCHANGED <<pc, cancel_req>>
       ELSE /\ pc' = [pc EXCEPT ![s] = "created"]
            /\ cancel_req' = [cancel_req EXCEPT ![s] = FALSE]
    /\ response' = [op |-> "start_task", id |-> s, ok |-> TRUE]
    /\ UNCHANGED <<request, cancel_event, finished_event, transcript, subscribers, age,
                   wait_age, run, queue, published, finished_sets, transcript_writes,
                   stop_calls, idle_enabled>>

\* --------------------------------------------------------------- event bus
\* Subscribe that re-arms the run: a new sink clears the cancellation signal.
Subscribe_ClearsCancel(s, sinks) ==
    /\ ~Busy
    /\ s \in Sims
    /\ Len(queue) < sinks
    /\ queue' = Append(queue, [sim |-> s, items |-> <<>>])
    /\ subscribers' = [subscribers EXCEPT ![s] = @ \cup {Len(queue) + 1}]
    /\ age' = [age EXCEPT ![s] = 0]
    /\ cancel_event' = [cancel_event EXCEPT ![s] = FALSE]
    /\ response' = [op |-> "subscribe", id |-> s, ok |-> TRUE]
    /\ UNCHANGED <<request, finished_event, transcript, pc, cancel_req,
                   wait_age, run, published, finished_sets, transcript_writes,
                   stop_calls, idle_enabled>>

\* SimulationState.subscribe: a fresh queue, registered.
Subscribe(s, sinks) ==
    /\ ~Busy
    /\ s \in Sims
    /\ Len(queue) < sinks
    /\ queue' = Append(queue, [sim |-> s, items |-> <<>>])
    /\ subscribers' = [subscribers EXCEPT ![s] = @ \cup {Len(queue) + 1}]
    /\ age' = [age EXCEPT ![s] = 0]
    /\ response' = [op |-> "subscribe", id |-> s, ok |-> TRUE]
    /\ UNCHANGED <<request, cancel_event, finished_event, transcript, pc, cancel_req,
                   wait_age, run, published, finished_sets, transcript_writes,
                   stop_calls, idle_enabled>>

\* Unsubscribe that cancels an active run whenever a sink leaves, whether or
\* not others remain.
Unsubscribe_CancelsOnAnyLeave(s, h) ==
    /\ ~Busy
    /\ s \in Sims
    /\ h \in Handles
    /\ queue[h].sim = s
    /\ subscribers' = [subscribers EXCEPT ![s] = @ \ {h}]
    /\ age' = [age EXCEPT ![s] = 0]
    /\ LET cancels == pc[s] # "none" /\ ~task_done(s)
       IN  /\ cancel_event' = [cancel_event EXCEPT ![s] = IF cancels THEN TRUE ELSE @]
           /\ cancel_req' = [cancel_req EXCEPT ![s] = IF cancels THEN TRUE ELSE @]
    /\ response' = [op |-> "unsubscribe", id |-> s, ok |-> TRUE]
    /\ UNCHANGED <<request, finished_event, transcript, pc, wait_age, run, queue,
                   published, finished_sets, transcript_writes, stop_calls, idle_enabled>>

\* SimulationState.unsubscribe, with any handle ever handed out for s.
Unsubscribe(s, h) ==
    /\ ~Busy
    /\ s \in Sims
    /\ h \in Handles
    /\ queue[h].sim = s
    /\ subscribers' = [subscribers EXCEPT ![s] = @ \ {h}]
    /\ age' = [age EXCEPT ![s] = 0]
    /\ LET cancels == subscribers'[s] = {} /\ pc[s] # "none" /\ ~task_done(s)
       IN  /\ cancel_event' = [cancel_event EXCEPT ![s] = IF cancels THEN TRUE ELSE @]
           /\ cancel_req' = [cancel_req EXCEPT ![s] = IF cancels THEN TRUE ELSE @]
    /\ response' = [op |-> "unsubscribe", id |-> s, ok |-> TRUE]
    /\ UNCHANGED <<request, finished_event, transcript, pc, wait_age, run, queue,
                   published, finished_sets, transcript_writes, stop_calls, idle_enabled>>

\* SimulationState.unsubscribe (state.py:28-34) with a queue that subscribe
\* never handed out for s: discard removes nothing, the rest runs as ever.
UnsubscribeUnregistered(s) ==
    /\ ~Busy
    /\ s \in Sims
    /\ age' = [age EXCEPT ![s] = 0]
    /\ LET cancels == subscribers[s] = {} /\ pc[s] # "none" /\ ~task_done(s)
       IN  /\ cancel_event' = [cancel_event EXCEPT ![s] = IF cancels THEN TRUE ELSE @]
           /\ cancel_req' = [cancel_req EXCEPT ![s] = IF cancels THEN TRUE ELSE @]
    /\ response' = [op |-> "unsubscribe", id |-> s, ok |-> TRUE]
    /\ UNCHANGED <<request, finished_event, transcript, pc, subscribers, wait_age, run,
                   queue, published, finished_sets, transcript_writes, stop_calls,
                   idle_enabled>>

\* The monotonic clock advances by one tick (only the comparisons with the
\* grace period read it, so ages are capped there).
Tick ==
    /\ ~Busy
    /\ idle_enabled
    /\ \E s \in Sims : ~task_done(s) /\ (age[s] < GraceTicks \/ wait_age[s] < GraceTicks)
    /\ age' = [s \in Sims |-> IF age[s] < GraceTicks THEN age[s] + 1 ELSE age[s]]
    /\ wait_age' = [s \in Sims |->
                      IF wait_age[s] < GraceTicks THEN wait_age[s] + 1 ELSE wait_age[s]]
    /\ response' = NoResponse
    /\ UNCHANGED <<request, cancel_event, finished_event, transcript, pc, cancel_req,
                   subscribers, run, queue, published, finished_sets, transcript_writes,
                   stop_calls, idle_enabled>>

\* --------------------------------------------------------- background task
\* What no step of the background task changes.
taskFrame == <<request, subscribers, age, stop_calls, idle_enabled>>

IsFacilitatorRole(role) == role \in {"moderator", "synthesizer"}

\* Where an exception raised inside run_simulation lands: in the finally of
\* runner.py:608 if the try of line 345 was entered, else straight in the
\* handlers of SimulationManager.start._runner.
RaiseTarget(s, kind) ==
    IF run[s].in_try THEN "finally"
    ELSE IF kind = "cancelled" THEN "runner_cancelled" ELSE "runner_except"

\* The task was cancelled before its first step: asyncio throws CancelledError
\* into the coroutine that has not started, so no line of _runner executes
\* (neither its except nor its finally) and the task is done.
RunnerCancelledBeforeStart(s) ==
    /\ ~Busy
    /\ pc[s] = "created"
    /\ cancel_req[s]
    /\ pc' = [pc EXCEPT ![s] = "done"]
    /\ cancel_req' = [cancel_req EXCEPT ![s] = FALSE]
    /\ response' = NoResponse
    /\ UNCHANGED <<cancel_event, finished_event, transcript, wait_age, run, queue,
                   published, finished_sets, transcript_writes>>
    /\ UNCHANGED taskFrame

\* First step of _runner (manager.py:40-44): enters run_simulation.
RunnerFirstStep(s) ==
    /\ ~Busy
    /\ pc[s] = "created"
    /\ ~cancel_req[s]
    /\ pc' = [pc EXCEPT ![s] = "preflight"]
    /\ response' = NoResponse
    /\ UNCHANGED <<cancel_event, finished_event, transcript, cancel_req, wait_age, run,
                   queue, published, finished_sets, transcript_writes>>
    /\ UNCHANGED taskFrame

\* run_simulation, pre-flight validation (runner.py:309-326): raises
\* FriendlyLLMError, before the try of line 345; else start_wait is taken.
Preflight(s) ==
    /\ pc[s] = "preflight"
    /\ IF request[s].reject
       THEN /\ pc' = [pc EXCEPT ![s] = RaiseTarget(s, "error")]
            /\ UNCHANGED wait_age
       ELSE /\ pc' = [pc EXCEPT ![s] = "orphan_wait"]
            /\ wait_age' = [wait_age EXCEPT ![s] = 0]
    /\ response' = NoResponse
    /\ UNCHANGED <<cancel_event, finished_event, transcript, cancel_req, run, queue,
                   published, finished_sets, transcript_writes>>
    /\ UNCHANGED taskFrame

\* OrphanWait that, at the deadline, sets the cancellation signal and falls
\* through to the start of the run instead of returning.
OrphanWait_FallsThrough(s) ==
    /\ pc[s] = "orphan_wait"
    /\ IF idle_enabled /\ ~cancel_event[s] /\ subscribers[s] = {}
       THEN IF wait_age[s] >= GraceTicks
            THEN /\ cancel_event' = [cancel_event EXCEPT ![s] = TRUE]
                 /\ pc' = [pc EXCEPT ![s] = "publish_started"]
            ELSE /\ pc' = [pc EXCEPT ![s] = "orphan_sleep"]
                 /\ UNCHANGED cancel_event
       ELSE /\ pc' = [pc EXCEPT ![s] = "publish_started"]
            /\ UNCHANGED cancel_event
    /\ response' = NoResponse
    /\ UNCHANGED <<finished_event, transcript, cancel_req, wait_age, run, queue,
                   published, finished_sets, transcript_writes>>
    /\ UNCHANGED taskFrame

\* OrphanWait without the wait: the run starts at once.
OrphanWait_NoWait(s) ==
    /\ pc[s] = "orphan_wait"
    /\ pc' = [pc EXCEPT ![s] = "publish_started"]
    /\ response' = NoResponse
    /\ UNCHANGED <<cancel_event, finished_event, transcript, cancel_req, wait_age, run,
                   queue, published, finished_sets, transcript_writes>>
    /\ UNCHANGED taskFrame

\* run_simulation, orphan grace period (runner.py:330-336).
OrphanWait(s) ==
    /\ pc[s] = "orphan_wait"
    /\ IF idle_enabled /\ ~cancel_event[s] /\ subscribers[s] = {}
       THEN IF wait_age[s] >= GraceTicks
            THEN /\ cancel_event' = [cancel_event EXCEPT ![s] = TRUE]
                 /\ pc' = [pc EXCEPT ![s] = "runner_finally"]
            ELSE /\ pc' = [pc EXCEPT ![s] = "orphan_sleep"]
                 /\ UNCHANGED cancel_event
       ELSE /\ pc' = [pc EXCEPT ![s] = "publish_started"]
            /\ UNCHANGED cancel_event
    /\ response' = NoResponse
    /\ UNCHANGED <<finished_event, transcript, cancel_req, wait_age, run, queue,
                   published, finished_sets, transcript_writes>>
    /\ UNCHANGED taskFrame

\* asyncio.sleep(0.05) of the orphan wait returns, or raises CancelledError
\* when the task was cancelled meanwhile (runner.py:336).
OrphanWake(s) ==
    /\ ~Busy
    /\ pc[s] = "orphan_sleep"
    /\ pc' = [pc EXCEPT ![s] =
                IF cancel_req[s] THEN RaiseTarget(s, "cancelled") ELSE "orphan_wait"]
    /\ cancel_req' = [cancel_req EXCEPT ![s] = FALSE]
    /\ response' = NoResponse
    /\ UNCHANGED <<cancel_event, finished_event, transcript, wait_age, run, queue,
                   published, finished_sets, transcript_writes>>
    /\ UNCHANGED taskFrame

\* runner.py:338-348: status{started}, then the locals, then the try.
PublishStarted(s) ==
    /\ pc[s] = "publish_started"
    /\ publish(s, <<StatusEvent("started")>>)
    /\ run' = [run EXCEPT ![s] = [InitRun EXCEPT !.in_try = TRUE]]
    /\ pc' = [pc EXCEPT ![s] = "while_head"]
    /\ response' = NoResponse
    /\ UNCHANGED <<cancel_event, finished_event, transcript, cancel_req, wait_age,
                   finished_sets, transcript_writes>>
    /\ UNCHANGED taskFrame

\* runner.py:350-361: the while condition, the idle-mid-run check, and the
\* start of a pass over the actors.
WhileHead(s) ==
    /\ pc[s] = "while_head"
    /\ IF run[s].actor_turns < request[s].turn_limit /\ ~cancel_event[s]
       THEN IF idle_enabled /\ subscribers[s] = {} /\ age[s] >= GraceTicks
            THEN /\ cancel_event' = [cancel_event EXCEPT ![s] = TRUE]
                 /\ pc' = [pc EXCEPT ![s] = "final_synth"]
                 /\ UNCHANGED run
            ELSE /\ run' = [run EXCEPT ![s] = [@ EXCEPT !.executed_agents = 0,
                                                       !.agent_idx = 1]]
                 /\ pc' = [pc EXCEPT ![s] = "for_head"]
                 /\ UNCHANGED cancel_event
       ELSE /\ pc' = [pc EXCEPT ![s] = "final_synth"]
            /\ UNCHANGED <<cancel_event, run>>
    /\ response' = NoResponse
    /\ UNCHANGED <<finished_event, transcript, cancel_req, wait_age, queue, published,
                   finished_sets, transcript_writes>>
    /\ UNCHANGED taskFrame

\* ForHead with the actors enumerated from 0 instead of 1.
ForHead_ZeroBased(s) ==
    /\ pc[s] = "for_head"
    /\ LET r == run[s]
           req == request[s]
       IN  IF r.agent_idx > req.n_agents
              \/ r.actor_turns >= req.turn_limit \/ cancel_event[s]
           THEN /\ pc' = [pc EXCEPT ![s] = "round_end"]
                /\ UNCHANGED run
           ELSE LET counted == [r EXCEPT !.actor_turns = @ + 1, !.turn = @ + 1,
                                         !.executed_agents = @ + 1]
                IN  IF req.long_prompt = r.agent_idx
                    THEN /\ run' = [run EXCEPT ![s] = [counted EXCEPT !.exc = "error"]]
                         /\ pc' = [pc EXCEPT ![s] = RaiseTarget(s, "error")]
                    ELSE /\ run' = [run EXCEPT ![s] =
                                      [counted EXCEPT !.role = "agent",
                                                      !.agent_id = r.agent_idx - 1,
                                                      !.site = "agent"]]
                         /\ pc' = [pc EXCEPT ![s] = "turn_build"]
    /\ response' = NoResponse
    /\ UNCHANGED <<cancel_event, finished_event, transcript, cancel_req, wait_age, queue,
                   published, finished_sets, transcript_writes>>
    /\ UNCHANGED taskFrame

\* runner.py:362-390: one iteration of `for agent_id, agent in enumerate(...)`
\* up to the call of _stream_one_turn.
ForHead(s) ==
    /\ pc[s] = "for_head"
    /\ LET r == run[s]
           req == request[s]
       IN  IF r.agent_idx > req.n_agents
              \/ r.actor_turns >= req.turn_limit \/ cancel_event[s]
           THEN /\ pc' = [pc EXCEPT ![s] = "round_end"]
                /\ UNCHANGED run
           ELSE LET counted == [r EXCEPT !.actor_turns = @ + 1, !.turn = @ + 1,
                                         !.executed_agents = @ + 1]
                IN  IF req.long_prompt = r.agent_idx
                    THEN /\ run' = [run EXCEPT ![s] = [counted EXCEPT !.exc = "error"]]
                         /\ pc' = [pc EXCEPT ![s] = RaiseTarget(s, "error")]
                    ELSE /\ run' = [run EXCEPT ![s] =
                                      [counted EXCEPT !.role = "agent",
                                                      !.agent_id = r.agent_idx,
                                                      !.site = "agent"]]
                         /\ pc' = [pc EXCEPT ![s] = "turn_build"]
    /\ response' = NoResponse
    /\ UNCHANGED <<cancel_event, finished_event, transcript, cancel_req, wait_age, queue,
                   published, finished_sets, transcript_writes>>
    /\ UNCHANGED taskFrame

\* TurnBuild that opens the stream without publishing status{typing}.
TurnBuild_SkipsTyping(s, ok) ==
    /\ pc[s] = "turn_build"
    /\ IF ok
       THEN /\ run' = [run EXCEPT ![s] =
                        [@ EXCEPT !.tokens = 0,
                                  !.context = build_messages_for_turn(
                                      run[s].role, run[s].agent_id, run[s].messages)]]
            /\ pc' = [pc EXCEPT ![s] = "stream"]
       ELSE /\ pc' = [pc EXCEPT ![s] = "turn_error"]
            /\ UNCHANGED run
    /\ response' = NoResponse
    /\ UNCHANGED <<cancel_event, finished_event, transcript, cancel_req, wait_age,
                   queue, published, finished_sets, transcript_writes>>
    /\ UNCHANGED taskFrame

\* _stream_one_turn up to the token stream (runner.py:223-256):
\* build_chat_model raises FriendlyLLMError (ok = FALSE) or status{typing} is
\* published and the stream is opened.
TurnBuild(s, ok) ==
    /\ pc[s] = "turn_build"
    /\ IF ok
       THEN /\ publish(s, <<TypingEvent(run[s].turn, run[s].agent_id)>>)
            /\ run' = [run EXCEPT ![s] =
                        [@ EXCEPT !.tokens = 0,
                                  !.context = build_messages_for_turn(
                                      run[s].role, run[s].agent_id, run[s].messages)]]
            /\ pc' = [pc EXCEPT ![s] = "stream"]
       ELSE /\ pc' = [pc EXCEPT ![s] = "turn_error"]
            /\ UNCHANGED <<run, queue, published>>
    /\ response' = NoResponse
    /\ UNCHANGED <<cancel_event, finished_event, transcript, cancel_req, wait_age,
                   finished_sets, transcript_writes>>
    /\ UNCHANGED taskFrame

\* One chunk of llm.astream (runner.py:256-273): the cancellation flag is
\* checked first; an empty chunk publishes nothing.
StreamChunk(s, empty) ==
    /\ ~Busy
    /\ pc[s] = "stream"
    /\ ~cancel_req[s]
    /\ run[s].tokens < MaxTokens
    /\ IF cancel_event[s]
       THEN /\ run' = [run EXCEPT ![s] = [@ EXCEPT !.terminate = FALSE]]
            /\ pc' = [pc EXCEPT ![s] = "turn_return"]
            /\ UNCHANGED <<queue, published>>
       ELSE /\ run' = [run EXCEPT ![s] = [@ EXCEPT !.tokens = @ + 1]]
            /\ UNCHANGED pc
            /\ IF empty
               THEN UNCHANGED <<queue, published>>
               ELSE publish(s, <<TokenEvent(run[s].turn, run[s].role, run[s].agent_id)>>)
    /\ response' = NoResponse
    /\ UNCHANGED <<cancel_event, finished_event, transcript, cancel_req, wait_age,
                   finished_sets, transcript_writes>>
    /\ UNCHANGED taskFrame

\* StreamEnd with the entry indexed by the actor-turn counter instead of the
\* sequential turn index.
StreamEnd_ActorTurns(s, text) ==
    /\ ~Busy
    /\ pc[s] = "stream"
    /\ ~cancel_req[s]
    /\ (IsFacilitatorRole(run[s].role) \/ text = PlainText)
    /\ LET res == IF IsFacilitatorRole(run[s].role)
                  THEN parse_termination_payload(text)
                  ELSE [terminate |-> FALSE, message |-> stripped(text)]
       IN  run' = [run EXCEPT ![s] =
                 [@ EXCEPT !.messages = Append(@, TranscriptMessage(run[s].role,
                                                     run[s].agent_id, run[s].actor_turns)),
                           !.terminate = res.terminate,
                           !.full = text, !.final_content = res.message]]
    /\ publish(s, <<MessageEvent(run[s].actor_turns, run[s].role, run[s].agent_id)>>)
    /\ pc' = [pc EXCEPT ![s] = "turn_return"]
    /\ response' = NoResponse
    /\ UNCHANGED <<cancel_event, finished_event, transcript, cancel_req, wait_age,
                   finished_sets, transcript_writes>>
    /\ UNCHANGED taskFrame

\* StreamEnd that appends the entry without publishing its message event.
StreamEnd_Unmirrored(s, text) ==
    /\ ~Busy
    /\ pc[s] = "stream"
    /\ ~cancel_req[s]
    /\ (IsFacilitatorRole(run[s].role) \/ text = PlainText)
    /\ LET res == IF IsFacilitatorRole(run[s].role)
                  THEN parse_termination_payload(text)
                  ELSE [terminate |-> FALSE, message |-> stripped(text)]
       IN  run' = [run EXCEPT ![s] =
                 [@ EXCEPT !.messages = Append(@, TranscriptMessage(run[s].role,
                                                     run[s].agent_id, run[s].turn)),
                           !.terminate = res.terminate,
                           !.full = text, !.final_content = res.message]]
    /\ pc' = [pc EXCEPT ![s] = "turn_return"]
    /\ response' = NoResponse
    /\ UNCHANGED <<cancel_event, finished_event, transcript, cancel_req, wait_age,
                   queue, published, finished_sets, transcript_writes>>
    /\ UNCHANGED taskFrame

\* The stream is exhausted (runner.py:275-303) with full output text: a
\* facilitator's output goes through _parse_termination_payload, an actor's
\* is taken as it is (one plain text stands for every actor output); the
\* entry is appended and mirrored by a message event.
StreamEnd(s, text) ==
    /\ ~Busy
    /\ pc[s] = "stream"
    /\ ~cancel_req[s]
    /\ (IsFacilitatorRole(run[s].role) \/ text = PlainText)
    /\ LET res == IF IsFacilitatorRole(run[s].role)
                  THEN parse_termination_payload(text)
                  ELSE [terminate |-> FALSE, message |-> stripped(text)]
       IN  run' = [run EXCEPT ![s] =
                 [@ EXCEPT !.messages = Append(@, TranscriptMessage(run[s].role,
                                                     run[s].agent_id, run[s].turn)),
                           !.terminate = res.terminate,
                           !.full = text, !.final_content = res.message]]
    /\ publish(s, <<MessageEvent(run[s].turn, run[s].role, run[s].agent_id)>>)
    /\ pc' = [pc EXCEPT ![s] = "turn_return"]
    /\ response' = NoResponse
    /\ UNCHANGED <<cancel_event, finished_event, transcript, cancel_req, wait_age,
                   finished_sets, transcript_writes>>
    /\ UNCHANGED taskFrame

\* llm.astream raises mid-stream: caught by the handlers at the call site.
StreamFail(s) ==
    /\ ~Busy
    /\ pc[s] = "stream"
    /\ ~cancel_req[s]
    /\ pc' = [pc EXCEPT ![s] = "turn_error"]
    /\ response' = NoResponse
    /\ UNCHANGED <<cancel_event, finished_event, transcript, cancel_req, wait_age, run,
                   queue, published, finished_sets, transcript_writes>>
    /\ UNCHANGED taskFrame

\* StreamCancelled with the cancellation caught inside the turn, which then
\* finalizes the partial content like a completed stream.
StreamCancelled_Finalizes(s) ==
    /\ ~Busy
    /\ pc[s] = "stream"
    /\ cancel_req[s]
    /\ cancel_req' = [cancel_req EXCEPT ![s] = FALSE]
    /\ run' = [run EXCEPT ![s] =
                 [@ EXCEPT !.messages = Append(@, TranscriptMessage(run[s].role,
                                                     run[s].agent_id, run[s].turn)),
                           !.terminate = FALSE]]
    /\ publish(s, <<MessageEvent(run[s].turn, run[s].role, run[s].agent_id)>>)
    /\ pc' = [pc EXCEPT ![s] = "turn_return"]
    /\ response' = NoResponse
    /\ UNCHANGED <<cancel_event, finished_event, transcript, wait_age,
                   finished_sets, transcript_writes>>
    /\ UNCHANGED taskFrame

\* StreamCancelled with the cancellation swallowed by a retry of the model
\* call: the turn is opened again.
StreamCancelled_RetriesTurn(s) ==
    /\ ~Busy
    /\ pc[s] = "stream"
    /\ cancel_req[s]
    /\ cancel_req' = [cancel_req EXCEPT ![s] = FALSE]
    /\ pc' = [pc EXCEPT ![s] = "turn_build"]
    /\ response' = NoResponse
    /\ UNCHANGED <<cancel_event, finished_event, transcript, wait_age, run, queue,
                   published, finished_sets, transcript_writes>>
    /\ UNCHANGED taskFrame

\* The task was cancelled while it awaited the stream: CancelledError is
\* raised at the await; neither `except FriendlyLLMError` nor
\* `except Exception` catches it.
StreamCancelled(s) ==
    /\ ~Busy
    /\ pc[s] = "stream"
    /\ cancel_req[s]
    /\ cancel_req' = [cancel_req EXCEPT ![s] = FALSE]
    /\ run' = [run EXCEPT ![s] = [@ EXCEPT !.exc = "cancelled"]]
    /\ pc' = [pc EXCEPT ![s] = RaiseTarget(s, "cancelled")]
    /\ response' = NoResponse
    /\ UNCHANGED <<cancel_event, finished_event, transcript, wait_age, queue, published,
                   finished_sets, transcript_writes>>
    /\ UNCHANGED taskFrame

\* The except clauses around a turn (runner.py:391-418, 460-482, 518-540,
\* 577-598): error, then status{error}, then return.
TurnError(s) ==
    /\ pc[s] = "turn_error"
    /\ publish(s, <<ErrorEvent, StatusEvent("error")>>)
    /\ pc' = [pc EXCEPT ![s] = "finally"]
    /\ response' = NoResponse
    /\ UNCHANGED <<cancel_event, finished_event, transcript, cancel_req, wait_age, run,
                   finished_sets, transcript_writes>>
    /\ UNCHANGED taskFrame

\* TurnReturn that drops the facilitator's terminate flag.
TurnReturn_IgnoresTerminate(s) ==
    /\ pc[s] = "turn_return"
    /\ LET r == [run[s] EXCEPT !.full = NoText, !.final_content = ""]
       IN  CASE r.site = "agent" ->
                  /\ run' = [run EXCEPT ![s] = [r EXCEPT !.agent_idx = @ + 1]]
                  /\ pc' = [pc EXCEPT ![s] = "for_head"]
             [] r.site = "synth" ->
                  /\ run' = [run EXCEPT ![s] = r]
                  /\ pc' = [pc EXCEPT ![s] = "mod_check"]
             [] r.site = "mod" ->
                  /\ run' = [run EXCEPT ![s] = r]
                  /\ pc' = [pc EXCEPT ![s] = "loop_tail"]
             [] OTHER ->
                  /\ run' = [run EXCEPT ![s] = r]
                  /\ pc' = [pc EXCEPT ![s] = "terminal_status"]
    /\ response' = NoResponse
    /\ UNCHANGED <<cancel_event, finished_event, transcript, cancel_req, wait_age, queue,
                   published, finished_sets, transcript_writes>>
    /\ UNCHANGED taskFrame

\* _stream_one_turn returned (its locals full and final_content are gone):
\* what its call site does with the result (runner.py:378/362, 457-459,
\* 516-517, 557/600).
TurnReturn(s) ==
    /\ pc[s] = "turn_return"
    /\ LET r == [run[s] EXCEPT !.full = NoText, !.final_content = ""]
       IN  CASE r.site = "agent" ->
                  /\ run' = [run EXCEPT ![s] = [r EXCEPT !.agent_idx = @ + 1]]
                  /\ pc' = [pc EXCEPT ![s] = "for_head"]
             [] r.site = "synth" ->
                  /\ run' = [run EXCEPT ![s] =
                               [r EXCEPT !.terminated_early = @ \/ r.terminate,
                                         !.synth_concluded = @ \/ r.terminate]]
                  /\ pc' = [pc EXCEPT ![s] = "mod_check"]
             [] r.site = "mod" ->
                  /\ run' = [run EXCEPT ![s] =
                               [r EXCEPT !.terminated_early = @ \/ r.terminate]]
                  /\ pc' = [pc EXCEPT ![s] = "loop_tail"]
             [] OTHER ->
                  /\ run' = [run EXCEPT ![s] = r]
                  /\ pc' = [pc EXCEPT ![s] = "terminal_status"]
    /\ response' = NoResponse
    /\ UNCHANGED <<cancel_event, finished_event, transcript, cancel_req, wait_age, queue,
                   published, finished_sets, transcript_writes>>
    /\ UNCHANGED taskFrame

\* runner.py:420-421: a full pass over the actors counts as one round.
RoundEnd(s) ==
    /\ pc[s] = "round_end"
    /\ run' = [run EXCEPT ![s] =
                 [@ EXCEPT !.collaboration_rounds =
                      IF run[s].executed_agents = request[s].n_agents
                         /\ run[s].executed_agents > 0
                      THEN @ + 1 ELSE @]]
    /\ pc' = [pc EXCEPT ![s] = "synth_check"]
    /\ response' = NoResponse
    /\ UNCHANGED <<cancel_event, finished_event, transcript, cancel_req, wait_age, queue,
                   published, finished_sets, transcript_writes>>
    /\ UNCHANGED taskFrame

\* SynthesizerDue without the test of the interaction mode.
SynthesizerDue_AnyMode(s) ==
    /\ request[s].synthesizer.enabled
    /\ ~cancel_event[s]
    /\ request[s].synthesizer.model
    /\ run[s].collaboration_rounds > 0
    /\ run[s].collaboration_rounds % request[s].synthesizer.frequency_turns = 0

\* The condition of runner.py:425-432.
SynthesizerDue(s) ==
    /\ request[s].synthesizer.enabled
    /\ request[s].mode = "collaboration"
    /\ ~cancel_event[s]
    /\ request[s].synthesizer.model
    /\ run[s].collaboration_rounds > 0
    /\ run[s].collaboration_rounds % request[s].synthesizer.frequency_turns = 0

\* runner.py:425-456: the scheduled synthesizer turn.
SynthCheck(s) ==
    /\ pc[s] = "synth_check"
    /\ IF SynthesizerDue(s)
       THEN /\ run' = [run EXCEPT ![s] =
                         [@ EXCEPT !.final_call = run[s].actor_turns >= request[s].turn_limit,
                                   !.turn = @ + 1, !.role = "synthesizer",
                                   !.agent_id = -2, !.site = "synth"]]
            /\ pc' = [pc EXCEPT ![s] = "turn_build"]
       ELSE /\ pc' = [pc EXCEPT ![s] = "mod_check"]
            /\ UNCHANGED run
    /\ response' = NoResponse
    /\ UNCHANGED <<cancel_event, finished_event, transcript, cancel_req, wait_age, queue,
                   published, finished_sets, transcript_writes>>
    /\ UNCHANGED taskFrame

\* The condition of runner.py:485-491.
ModeratorDue(s) ==
    /\ request[s].moderator.enabled
    /\ request[s].mode = "debate"
    /\ ~cancel_event[s]
    /\ request[s].moderator.model
    /\ run[s].turn % request[s].moderator.frequency_turns = 0

\* ModCheck with the moderator's turn counted as an actor turn.
ModCheck_CountsActorTurn(s) ==
    /\ pc[s] = "mod_check"
    /\ IF ModeratorDue(s)
       THEN /\ run' = [run EXCEPT ![s] =
                         [@ EXCEPT !.final_call = run[s].actor_turns >= request[s].turn_limit,
                                   !.turn = @ + 1, !.actor_turns = @ + 1,
                                   !.role = "moderator",
                                   !.agent_id = -1, !.site = "mod"]]
            /\ pc' = [pc EXCEPT ![s] = "turn_build"]
       ELSE /\ pc' = [pc EXCEPT ![s] = "loop_tail"]
            /\ UNCHANGED run
    /\ response' = NoResponse
    /\ UNCHANGED <<cancel_event, finished_event, transcript, cancel_req, wait_age, queue,
                   published, finished_sets, transcript_writes>>
    /\ UNCHANGED taskFrame

\* runner.py:485-515: the moderator turn.
ModCheck(s) ==
    /\ pc[s] = "mod_check"
    /\ IF ModeratorDue(s)
       THEN /\ run' = [run EXCEPT ![s] =
                         [@ EXCEPT !.final_call = run[s].actor_turns >= request[s].turn_limit,
                                   !.turn = @ + 1, !.role = "moderator",
                                   !.agent_id = -1, !.site = "mod"]]
            /\ pc' = [pc EXCEPT ![s] = "turn_build"]
       ELSE /\ pc' = [pc EXCEPT ![s] = "loop_tail"]
            /\ UNCHANGED run
    /\ response' = NoResponse
    /\ UNCHANGED <<cancel_event, finished_event, transcript, cancel_req, wait_age, queue,
                   published, finished_sets, transcript_writes>>
    /\ UNCHANGED taskFrame

\* runner.py:542-543: `if terminated_early: break`, else back to the while.
LoopTail(s) ==
    /\ pc[s] = "loop_tail"
    /\ pc' = [pc EXCEPT ![s] = IF run[s].terminated_early THEN "final_synth"
                                                          ELSE "while_head"]
    /\ response' = NoResponse
    /\ UNCHANGED <<cancel_event, finished_event, transcript, cancel_req, wait_age, run,
                   queue, published, finished_sets, transcript_writes>>
    /\ UNCHANGED taskFrame

\* The condition of runner.py:547-554.
FinalSynthesizerDue(s) ==
    /\ ~cancel_event[s]
    /\ ~run[s].terminated_early
    /\ request[s].synthesizer.enabled
    /\ request[s].mode = "collaboration"
    /\ request[s].synthesizer.model
    /\ ~run[s].synth_concluded

\* runner.py:547-576: the forced closing synthesizer turn.
FinalSynth(s) ==
    /\ pc[s] = "final_synth"
    /\ IF FinalSynthesizerDue(s)
       THEN /\ run' = [run EXCEPT ![s] =
                         [@ EXCEPT !.final_call = TRUE,
                                   !.turn = @ + 1, !.role = "synthesizer",
                                   !.agent_id = -2, !.site = "final"]]
            /\ pc' = [pc EXCEPT ![s] = "turn_build"]
       ELSE /\ pc' = [pc EXCEPT ![s] = "terminal_status"]
            /\ UNCHANGED run
    /\ response' = NoResponse
    /\ UNCHANGED <<cancel_event, finished_event, transcript, cancel_req, wait_age, queue,
                   published, finished_sets, transcript_writes>>
    /\ UNCHANGED taskFrame

\* runner.py:600-607: the terminal status.
TerminalStatus(s) ==
    /\ pc[s] = "terminal_status"
    /\ publish(s, <<StatusEvent(IF cancel_event[s] THEN "stopped" ELSE "finished")>>)
    /\ pc' = [pc EXCEPT ![s] = "finally"]
    /\ response' = NoResponse
    /\ UNCHANGED <<cancel_event, finished_event, transcript, cancel_req, wait_age, run,
                   finished_sets, transcript_writes>>
    /\ UNCHANGED taskFrame

\* runner.py:608-614: the finally of run_simulation seals the transcript; an
\* exception in flight then reaches the handlers of _runner.
Finally(s) ==
    /\ pc[s] = "finally"
    /\ transcript' = [transcript EXCEPT ![s] = <<run[s].messages>>]
    /\ transcript_writes' = [transcript_writes EXCEPT ![s] = @ + 1]
    /\ pc' = [pc EXCEPT ![s] =
                CASE run[s].exc = "cancelled" -> "runner_cancelled"
                  [] run[s].exc = "error" -> "runner_except"
                  [] OTHER -> "runner_finally"]
    /\ response' = NoResponse
    /\ UNCHANGED <<cancel_event, finished_event, cancel_req, wait_age, run, queue,
                   published, finished_sets>>
    /\ UNCHANGED taskFrame

\* RunnerExcept that swallows the exception without reporting it.
RunnerExcept_Silent(s) ==
    /\ pc[s] = "runner_except"
    /\ pc' = [pc EXCEPT ![s] = "runner_finally"]
    /\ response' = NoResponse
    /\ UNCHANGED <<cancel_event, finished_event, transcript, cancel_req, wait_age, run,
                   queue, published, finished_sets, transcript_writes>>
    /\ UNCHANGED taskFrame

\* _runner, `except Exception` (manager.py:54-64): one error event.
RunnerExcept(s) ==
    /\ pc[s] = "runner_except"
    /\ publish(s, <<ErrorEvent>>)
    /\ pc' = [pc EXCEPT ![s] = "runner_finally"]
    /\ response' = NoResponse
    /\ UNCHANGED <<cancel_event, finished_event, transcript, cancel_req, wait_age, run,
                   finished_sets, transcript_writes>>
    /\ UNCHANGED taskFrame

\* _runner, `except asyncio.CancelledError` (manager.py:45-48): sets the
\* cancellation signal and awaits the shielded publish, which runs as a task
\* of its own.
RunnerCancelled(s) ==
    /\ pc[s] = "runner_cancelled"
    /\ cancel_event' = [cancel_event EXCEPT ![s] = TRUE]
    /\ pc' = [pc EXCEPT ![s] = "shield"]
    /\ response' = NoResponse
    /\ UNCHANGED <<finished_event, transcript, cancel_req, wait_age, run, queue,
                   published, finished_sets, transcript_writes>>
    /\ UNCHANGED taskFrame

\* ShieldedPublish that reports the cancelled run as finished.
ShieldedPublish_Finished(s) ==
    /\ ~Busy
    /\ pc[s] = "shield"
    /\ publish(s, <<StatusEvent("finished")>>)
    /\ pc' = [pc EXCEPT ![s] = "shield_resume"]
    /\ response' = NoResponse
    /\ UNCHANGED <<cancel_event, finished_event, transcript, cancel_req, wait_age, run,
                   finished_sets, transcript_writes>>
    /\ UNCHANGED taskFrame

\* The shielded inner task (manager.py:48-52): publishes status{stopped}.  It
\* was scheduled before anything that can wake the outer task, so it runs
\* first.
ShieldedPublish(s) ==
    /\ ~Busy
    /\ pc[s] = "shield"
    /\ publish(s, <<StatusEvent("stopped")>>)
    /\ pc' = [pc EXCEPT ![s] = "shield_resume"]
    /\ response' = NoResponse
    /\ UNCHANGED <<cancel_event, finished_event, transcript, cancel_req, wait_age, run,
                   finished_sets, transcript_writes>>
    /\ UNCHANGED taskFrame

\* The outer task resumes after the shield: `return` (manager.py:53), or a
\* CancelledError from a further cancel request; both reach the finally.
RunnerResume(s) ==
    /\ ~Busy
    /\ pc[s] = "shield_resume"
    /\ cancel_req' = [cancel_req EXCEPT ![s] = FALSE]
    /\ pc' = [pc EXCEPT ![s] = "runner_finally"]
    /\ response' = NoResponse
    /\ UNCHANGED <<cancel_event, finished_event, transcript, wait_age, run, queue,
                   published, finished_sets, transcript_writes>>
    /\ UNCHANGED taskFrame

\* _runner, finally (manager.py:65-66): the completion signal; the task ends.
RunnerFinally(s) ==
    /\ pc[s] = "runner_finally"
    /\ finished_event' = [finished_event EXCEPT ![s] = TRUE]
    /\ finished_sets' = [finished_sets EXCEPT ![s] = @ + 1]
    /\ pc' = [pc EXCEPT ![s] = "done"]
    /\ response' = NoResponse
    /\ UNCHANGED <<cancel_event, transcript, cancel_req, wait_age, run, queue,
                   published, transcript_writes>>
    /\ UNCHANGED taskFrame

\* A step of the background task of simulation s.
TaskStep(s) ==
    \/ RunnerCancelledBeforeStart(s)
    \/ RunnerFirstStep(s)
    \/ Preflight(s)
    \/ OrphanWait(s)
    \/ OrphanWake(s)
    \/ PublishStarted(s)
    \/ WhileHead(s)
    \/ ForHead(s)
    \/ \E ok \in BOOLEAN : TurnBuild(s, ok)
    \/ \E empty \in BOOLEAN : StreamChunk(s, empty)
    \/ \E text \in Texts : StreamEnd(s, text)
    \/ StreamFail(s)
    \/ StreamCancelled(s)
    \/ TurnError(s)
    \/ TurnReturn(s)
    \/ RoundEnd(s)
    \/ SynthCheck(s)
    \/ ModCheck(s)
    \/ LoopTail(s)
    \/ FinalSynth(s)
    \/ TerminalStatus(s)
    \/ Finally(s)
    \/ RunnerExcept(s)
    \/ RunnerCancelled(s)
    \/ ShieldedPublish(s)
    \/ RunnerResume(s)
    \/ RunnerFinally(s)

\* The calls made from outside the background task.
External(reqs, limit, sinks, stops) ==
    \/ \E r \in reqs : StartSimulation(r, limit)
    \/ StartSimulationRefused
    \/ \E id \in 1..(Len(request) + 1) : StopAbsent(id)
    \/ \E id \in Sims : Stop(id, stops)
    \/ \E s \in Sims : Subscribe(s, sinks)
    \/ \E s \in Sims : \E h \in Handles : Unsubscribe(s, h)
    \/ Tick

\* ---------------------------------------------------------- specifications
\* One simulation, every request of the bounded request set.
Next ==
    \/ External(Requests, 1, RunSinks, RunStops)
    \/ \E s \in Sims : TaskStep(s)

Spec == Init /\ [][Next]_vars

\* Several simulations in the registry, plain requests, and further calls of
\* start on stored states.
NextRegistry ==
    \/ External(RegistryRequests, MaxSims, RunSinks, RunStops)
    \/ \E s \in Sims : start(s)
    \/ \E s \in Sims : TaskStep(s)

SpecRegistry == Init /\ [][NextRegistry]_vars

\* One simulation with a plain request, several sinks and stop calls.
NextBus ==
    \/ External(RegistryRequests, 1, MaxSinks, MaxStops)
    \/ \E s \in Sims : TaskStep(s)

SpecBus == Init /\ [][NextBus]_vars

\* The bus specification with unsubscribe also called on queues that were
\* never registered.
NextUnregistered ==
    \/ External(RegistryRequests, 1, RunSinks, RunStops)
    \/ \E s \in Sims : UnsubscribeUnregistered(s)
    \/ \E s \in Sims : TaskStep(s)

SpecUnregistered == Init /\ [][NextUnregistered]_vars

\* One simulation that takes more than one pass over its actors, with a
\* facilitator.
NextRounds ==
    \/ External(RoundsRequests, 1, RunSinks, RunStops)
    \/ \E s \in Sims : TaskStep(s)

SpecRounds == Init /\ [][NextRounds]_vars

\* One simulation that takes more than one pass over its actors, with a
\* facilitator scheduled less often than every pass.
NextCadence ==
    \/ External(CadenceRequests, 1, RunSinks, RunStops)
    \/ \E s \in Sims : TaskStep(s)

SpecCadence == Init /\ [][NextCadence]_vars

\* ------------------------------------------------------- facilitator runner
\* run_facilitator (facilitator.py) over stream_one_turn (turn_executor.py),
\* called on a run state: the caller passes role, turn, transcript and
\* final_call; the locals live in run[s], the position in pc[s]:
\*   fac_call, fac_build, fac_stream, fac_except, fac_returned, fac_raised
\* The transcript handed over holds the actors' entries of turns 1..turn.
PriorTranscript(turn) ==
    [i \in 1..turn |-> TranscriptMessage("agent", ((i - 1) % MinActors) + 1, i)]

InitFacilitator ==
    \E role \in {"moderator", "synthesizer"}, turn \in 0..MaxTurnLimit,
       final_call \in BOOLEAN, cancelled \in BOOLEAN, sinks \in 0..RunSinks :
        /\ request = <<CHOOSE r \in RoundsRequests :
                          r.mode = (IF role = "moderator" THEN "debate"
                                                          ELSE "collaboration")>>
        /\ cancel_event = <<cancelled>>
        /\ finished_event = <<FALSE>>
        /\ transcript = << <<>> >>
        /\ pc = <<"fac_call">>
        /\ cancel_req = <<FALSE>>
        /\ subscribers = <<1..sinks>>
        /\ age = <<0>>
        /\ wait_age = <<0>>
        /\ run = <<[InitRun EXCEPT !.role = role, !.turn = turn,
                                   !.messages = PriorTranscript(turn),
                                   !.final_call = final_call, !.in_try = TRUE]>>
        /\ queue = [h \in 1..sinks |-> [sim |-> 1, items |-> <<>>]]
        /\ published = << <<>> >>
        /\ finished_sets = <<0>>
        /\ transcript_writes = <<0>>
        /\ stop_calls = <<0>>
        /\ idle_enabled = FALSE
        /\ response = NoResponse

\* What no step of run_facilitator changes.
facilitatorFrame ==
    <<cancel_event, finished_event, transcript, cancel_req, wait_age, finished_sets,
      transcript_writes, response>>

\* facilitator.py:38-45: the agent id of the role, and `turn += 1`.
run_facilitator_Enter(s) ==
    /\ pc[s] = "fac_call"
    /\ run' = [run EXCEPT ![s] =
                 [@ EXCEPT !.agent_id = IF run[s].role = "moderator" THEN -1 ELSE -2,
                           !.turn = @ + 1]]
    /\ pc' = [pc EXCEPT ![s] = "fac_build"]
    /\ UNCHANGED <<queue, published>>
    /\ UNCHANGED facilitatorFrame
    /\ UNCHANGED taskFrame

\* turn_executor.py:63-99: build_chat_model raises FriendlyLLMError
\* (ok = FALSE), or the context is built and status{typing} published.
stream_one_turn_Build(s, ok) ==
    /\ pc[s] = "fac_build"
    /\ IF ok
       THEN /\ publish(s, <<TypingEvent(run[s].turn, run[s].agent_id)>>)
            /\ run' = [run EXCEPT ![s] =
                        [@ EXCEPT !.tokens = 0,
                                  !.context = build_messages_for_turn(
                                      run[s].role, run[s].agent_id, run[s].messages)]]
            /\ pc' = [pc EXCEPT ![s] = "fac_stream"]
       ELSE /\ pc' = [pc EXCEPT ![s] = "fac_except"]
            /\ UNCHANGED <<run, queue, published>>
    /\ UNCHANGED facilitatorFrame
    /\ UNCHANGED taskFrame

\* turn_executor.py:104-125: one chunk; with the cancellation signal set the
\* turn returns False at once; an empty chunk publishes nothing.
stream_one_turn_Chunk(s, empty) ==
    /\ pc[s] = "fac_stream"
    /\ run[s].tokens < MaxTokens
    /\ IF cancel_event[s]
       THEN /\ run' = [run EXCEPT ![s] = [@ EXCEPT !.terminate = FALSE]]
            /\ pc' = [pc EXCEPT ![s] = "fac_returned"]
            /\ UNCHANGED <<queue, published>>
       ELSE /\ run' = [run EXCEPT ![s] = [@ EXCEPT !.tokens = @ + 1]]
            /\ UNCHANGED pc
            /\ IF empty
               THEN UNCHANGED <<queue, published>>
               ELSE publish(s, <<TokenEvent(run[s].turn, run[s].role, run[s].agent_id)>>)
    /\ UNCHANGED facilitatorFrame
    /\ UNCHANGED taskFrame

\* turn_executor.py:126-136: llm.astream raises; logged and raised again.
stream_one_turn_Fail(s) ==
    /\ pc[s] = "fac_stream"
    /\ pc' = [pc EXCEPT ![s] = "fac_except"]
    /\ UNCHANGED <<run, queue, published>>
    /\ UNCHANGED facilitatorFrame
    /\ UNCHANGED taskFrame

\* turn_executor.py:138-169 and facilitator.py:67: the stream is exhausted;
\* the output goes through parse_termination_payload, the entry is appended
\* and mirrored by a message event; run_facilitator returns (terminate, turn).
stream_one_turn_End(s, text) ==
    /\ pc[s] = "fac_stream"
    /\ LET res == parse_termination_payload(text)
       IN  run' = [run EXCEPT ![s] =
                 [@ EXCEPT !.messages = Append(@, TranscriptMessage(run[s].role,
                                                     run[s].agent_id, run[s].turn)),
                           !.terminate = res.terminate,
                           !.full = text, !.final_content = res.message]]
    /\ publish(s, <<MessageEvent(run[s].turn, run[s].role, run[s].agent_id)>>)
    /\ pc' = [pc EXCEPT ![s] = "fac_returned"]
    /\ UNCHANGED facilitatorFrame
    /\ UNCHANGED taskFrame

\* run_facilitator_Except that reports the error and returns normally.
run_facilitator_Except_Returns(s) ==
    /\ pc[s] = "fac_except"
    /\ publish(s, <<ErrorEvent, StatusEvent("error")>>)
    /\ pc' = [pc EXCEPT ![s] = "fac_returned"]
    /\ UNCHANGED run
    /\ UNCHANGED facilitatorFrame
    /\ UNCHANGED taskFrame

\* facilitator.py:68-92: both except clauses publish error, then
\* status{error}, and raise again.
run_facilitator_Except(s) ==
    /\ pc[s] = "fac_except"
    /\ publish(s, <<ErrorEvent, StatusEvent("error")>>)
    /\ run' = [run EXCEPT ![s] = [@ EXCEPT !.exc = "error"]]
    /\ pc' = [pc EXCEPT ![s] = "fac_raised"]
    /\ UNCHANGED facilitatorFrame
    /\ UNCHANGED taskFrame

\* One call of run_facilitator.
NextFacilitator ==
    \E s \in Sims :
        \/ run_facilitator_Enter(s)
        \/ \E ok \in BOOLEAN : stream_one_turn_Build(s, ok)
        \/ \E empty \in BOOLEAN : stream_one_turn_Chunk(s, empty)
        \/ stream_one_turn_Fail(s)
        \/ \E text \in Texts : stream_one_turn_End(s, text)
        \/ run_facilitator_Except(s)

SpecFacilitator == InitFacilitator /\ [][NextFacilitator]_vars

\* The bus specification under the scheduling of the event loop: a task that
\* is ready to run is run.
SpecBusFair == SpecBus /\ WF_vars(\E s \in Sims : TaskStep(s))

\* ------------------------------------------------------------------ claims
Range(f) == { f[i] : i \in DOMAIN f }

\* A facilitator takes turns in this request: the synthesizer in collaboration
\* mode, the moderator in debate mode, enabled and with a model.
FacilitatorActive(r) ==
    \/ r.synthesizer.enabled /\ r.synthesizer.model /\ r.mode = "collaboration"
    \/ r.moderator.enabled /\ r.moderator.model /\ r.mode = "debate"

\* The run of s has ended, was not cancelled and hit no error.
RunClean(s) ==
    /\ finished_event[s]
    /\ ~cancel_event[s]
    /\ ErrorEvent \notin Range(published[s])

\* T rounds of one turn per actor, actor ids 1..N in request order.
RoundRobinTranscript(n, t) ==
    [k \in 1..(n * t) |-> TranscriptMessage("agent", ((k - 1) % n) + 1, k)]

\* C1: with no facilitator active, no cancellation and no turn error, a run
\* with N actors and turn_limit T ends with a finalized transcript of exactly
\* N*T agent messages, T rounds of actor ids 1..N in request order.
C1_RoundRobinTranscript ==
    \A s \in Sims :
        RunClean(s) /\ ~FacilitatorActive(request[s])
        => transcript[s] =
             <<RoundRobinTranscript(request[s].n_agents, request[s].turn_limit)>>

\* The request of the collaboration scenario: 2 actors, turn_limit 2, the
\* synthesizer enabled with a model and frequency_turns 2.
IsCollaborationScenario(r) ==
    /\ r.mode = "collaboration" /\ r.n_agents = 2 /\ r.turn_limit = 2
    /\ r.synthesizer = [enabled |-> TRUE, model |-> TRUE, frequency_turns |-> 2]

\* C2: in the collaboration scenario, a run that is not cancelled, hits no
\* error and whose synthesizer never signals terminate ends with a finalized
\* transcript of exactly 5 entries: 4 agent messages, then 1 synthesizer
\* message.
C2_CollaborationScenario ==
    \A s \in Sims :
        RunClean(s) /\ IsCollaborationScenario(request[s]) /\ ~run[s].terminated_early
        => /\ transcript[s] # <<>>
           /\ Len(transcript[s][1]) = 5
           /\ \A i \in 1..4 : transcript[s][1][i].role = "agent"
           /\ transcript[s][1][5].role = "synthesizer"

\* The turn indices of a transcript are 1, 2, ..., k in order.
ContiguousTurns(msgs) == \A i \in DOMAIN msgs : msgs[i].turn = i

\* C3: in every reachable state the turn indices of the transcript entries
\* (of the accumulating transcript and of the finalized one) are exactly
\* 1, 2, ..., k in order.
C3_ContiguousTurnIndices ==
    \A s \in Sims :
        /\ ContiguousTurns(run[s].messages)
        /\ transcript[s] # <<>> => ContiguousTurns(transcript[s][1])

\* A transcript with agent and facilitator entries of a run that was cancelled.
C3_Witness ==
    \E s \in Sims :
        /\ cancel_event[s]
        /\ transcript[s] # <<>>
        /\ Len(transcript[s][1]) >= 3
        /\ \E i \in DOMAIN transcript[s][1] : IsFacilitatorRole(transcript[s][1][i].role)
        /\ run[s].turn > Len(transcript[s][1])

MessageEvents(log) == SelectSeq(log, LAMBDA e : e.type = "message")

\* C4: while a turn is streaming (after its status{typing}, before the end of
\* its token stream) with the cancellation signal set, set in this step or
\* earlier, no step appends a transcript entry or publishes a message event,
\* and the turn is left only by unwinding to the finally of run_simulation.
C4_CancelledTurnWritesNothing ==
    [][\A s \in Sims :
          pc[s] = "stream" /\ cancel_event'[s]
          => /\ run'[s].messages = run[s].messages
             /\ MessageEvents(published'[s]) = MessageEvents(published[s])
             /\ pc'[s] \in {"stream", "finally"}]_vars

\* A turn interrupted by a cancellation: typing was published for it, the
\* run unwinds, and the transcript has no entry for it.
C4_Witness ==
    \E s \in Sims :
        /\ pc[s] = "finally"
        /\ run[s].exc = "cancelled"
        /\ cancel_event[s]
        /\ TypingEvent(run[s].turn, run[s].agent_id) \in Range(published[s])
        /\ run[s].tokens > 0
        /\ \A i \in DOMAIN run[s].messages : run[s].messages[i].turn # run[s].turn

\* C5: every background task launched by start sets the completion signal
\* exactly once on every exit path: when the task is done, the completion
\* signal is set and was set once.
C5_CompletionSignalOnEveryExit ==
    \A s \in Sims : task_done(s) => finished_event[s] /\ finished_sets[s] = 1

\* C6: on every exit path the finalized transcript is written exactly once and
\* holds the entries appended so far; whenever the completion signal is set
\* the finalized transcript is available.
C6_TranscriptSealedOnEveryExit ==
    \A s \in Sims :
        finished_event[s]
        => /\ transcript[s] # <<>>
           /\ transcript_writes[s] = 1
           /\ transcript[s][1] = run[s].messages

\* The simulations with a started, not yet completed background task.
ActiveSims == { s \in Sims : pc[s] # "none" /\ (~finished_event[s] \/ ~task_done(s)) }

\* C7: at most one RunState of the registry has a started, not-yet-completed
\* background task at any time, and no step taken while one is active creates
\* a RunState or launches a task.
C7_SingleActiveRun ==
    /\ [](Cardinality(ActiveSims) <= 1)
    /\ [][ActiveSims # {} => Len(request') = Len(request) /\ Len(pc') = Len(pc)]_vars

\* A second simulation runs after the first has completed, and a start
\* request was just refused.
C7_Witness ==
    /\ Len(request) = 2
    /\ finished_event[1]
    /\ ActiveSims = {2}
    /\ response = [op |-> "start", id |-> 0, ok |-> FALSE]

\* The step is a call of stop(id).
StopStep(id) == response'.op = "stop" /\ response'.id = id

\* Every variable but the response of the call.
stateVars == <<request, cancel_event, finished_event, transcript, pc, cancel_req,
               subscribers, age, wait_age, run, queue, published, finished_sets,
               transcript_writes, stop_calls, idle_enabled>>

\* publish(ev) on simulation id delivered ev to exactly the registered sinks.
Delivered(id, ev) ==
    /\ published'[id] = Append(published[id], ev)
    /\ \A h \in Handles :
          queue'[h].items = IF h \in subscribers[id] THEN Append(queue[h].items, ev)
                                                     ELSE queue[h].items

\* C8: stop(id) on a simulation whose completion signal is set
\* returns false, leaves the cancellation signal as it was and publishes
\* nothing.
C8_StopFinishedIsNoOp ==
    [][\A id \in Sims :
          finished_event[id] /\ StopStep(id)
          => /\ ~response'.ok
             /\ cancel_event'[id] = cancel_event[id]
             /\ published'[id] = published[id]]_vars

\* C9: stop(id) for an absent id returns false and changes nothing; for a
\* stored id whose task is not done it returns true, sets the cancellation
\* signal, publishes status{stopping} to the registered sinks and requests
\* cancellation of the task; a further call leaves the fields of the RunState
\* as the first call left them.
C9_Stop ==
    [][/\ response'.op = "stop" /\ response'.id \notin Sims
          => ~response'.ok /\ UNCHANGED stateVars
       /\ \A id \in Sims :
            StopStep(id)
            => /\ ~task_done(id)
                  => /\ response'.ok
                     /\ cancel_event'[id]
                     /\ cancel_req'[id]
                     /\ Delivered(id, StatusEvent("stopping"))
               /\ stop_calls[id] >= 1
                  => /\ cancel_event[id]
                     /\ UNCHANGED <<request, cancel_event, finished_event, transcript,
                                    pc, subscribers, age>>]_vars

\* A second stop reached a task that was unwinding from the first, with a
\* sink registered.
C9_Witness ==
    \E id \in Sims :
        /\ response = [op |-> "stop", id |-> id, ok |-> TRUE]
        /\ stop_calls[id] = 2
        /\ pc[id] = "shield"
        /\ cancel_req[id]
        /\ subscribers[id] # {}
        /\ \E h \in subscribers[id] :
              /\ Len(queue[h].items) >= 2
              /\ queue[h].items[Len(queue[h].items)] = StatusEvent("stopping")

\* The step is a call of unsubscribe on simulation s.
UnsubscribeStep(s) == response'.op = "unsubscribe" /\ response'.id = s

\* C10: an unsubscribe that removes the last registered sink while the task
\* is started and not done sets the cancellation signal and requests the
\* cancellation of the task in that same step; when other sinks remain, or
\* the task is not started or already done, it leaves both unchanged.
C10_LastUnsubscribeCancels ==
    [][\A s \in Sims :
          UnsubscribeStep(s)
          => /\ subscribers[s] # {} /\ subscribers'[s] = {}
                /\ pc[s] # "none" /\ ~task_done(s)
                => cancel_event'[s] /\ cancel_req'[s]
             /\ subscribers'[s] # {} \/ pc[s] = "none" \/ task_done(s)
                => /\ cancel_event'[s] = cancel_event[s]
                   /\ cancel_req'[s] = cancel_req[s]
                   /\ pc' = pc]_vars

\* The last of two sinks just left a run that was streaming a turn.
C10_Witness ==
    \E s \in Sims :
        /\ response = [op |-> "unsubscribe", id |-> s, ok |-> TRUE]
        /\ Len(queue) = 2
        /\ subscribers[s] = {}
        /\ pc[s] = "stream"
        /\ cancel_event[s]
        /\ cancel_req[s]
        /\ stop_calls[s] = 0

\* The step is a repeated unsubscribe on simulation s: every handle was
\* registered when subscribe handed it out, so a call that removes no sink is
\* a further call with a handle that an earlier call removed.
RepeatedUnsubscribeStep(s) == UnsubscribeStep(s) /\ subscribers'[s] = subscribers[s]

\* C11: a second unsubscribe with the same handle leaves the sink set, the
\* cancellation signal and the background task (its position and its pending
\* cancellation request) exactly as they were.
C11_RepeatedUnsubscribeIdempotent ==
    [][\A s \in Sims :
          RepeatedUnsubscribeStep(s)
          => /\ subscribers' = subscribers
             /\ cancel_event' = cancel_event
             /\ cancel_req' = cancel_req
             /\ pc' = pc]_vars

\* The poll of the orphan wait finds the grace deadline passed with idle
\* shutdown enabled, no subscriber and the cancellation signal unset.
OrphanDeadline(s) ==
    /\ pc[s] = "orphan_wait"
    /\ idle_enabled
    /\ ~cancel_event[s]
    /\ subscribers[s] = {}
    /\ wait_age[s] >= GraceTicks

\* The run has left through the orphan deadline and is about to complete.
OrphanExit(s) == pc[s] = "runner_finally" /\ ~run[s].in_try /\ published[s] = <<>>

\* C12: with idle shutdown enabled, when no subscriber has attached at the
\* orphan grace deadline the run sets the cancellation signal, has published
\* no event and executed no turn, and publishes none and executes none on its
\* way out; its completion signal becomes set.
C12_OrphanDeadlineExit ==
    /\ [][\A s \in Sims :
            OrphanDeadline(s)
            => /\ cancel_event'[s]
               /\ published'[s] = <<>>
               /\ run'[s] = InitRun
               /\ pc'[s] = "runner_finally"]_vars
    /\ [][\A s \in Sims :
            OrphanExit(s)
            => /\ finished_event'[s]
               /\ published'[s] = <<>>
               /\ run'[s] = InitRun
               /\ task_done(s)']_vars
    /\ ((\E s \in Sims : OrphanDeadline(s))
           ~> (\E s \in Sims : finished_event[s] /\ cancel_event[s] /\ published[s] = <<>>))

\* A run nobody subscribed to or stopped has completed with the cancellation
\* signal set and nothing published.
C12_Witness ==
    \E s \in Sims :
        /\ idle_enabled
        /\ finished_event[s]
        /\ task_done(s)
        /\ cancel_event[s]
        /\ published[s] = <<>>
        /\ stop_calls[s] = 0
        /\ Len(queue) = 0
        /\ wait_age[s] >= GraceTicks

\* The number of occurrences of event ev in log.
Count(log, ev) == Cardinality({ i \in DOMAIN log : log[i] = ev })

\* An error was raised during a turn of run s: the try of run_simulation was
\* entered (so the error is not a pre-flight rejection) and an error event went
\* out.
TurnErrored(s) == run[s].in_try /\ ErrorEvent \in Range(published[s])

\* C13: once a turn has raised an error, the run has published exactly one
\* error event, immediately followed by its only status{error}; it has
\* published neither status{finished} nor status{stopped}, and the transcript
\* holds no entry for the failed turn.
C13_TurnErrorEvents ==
    \A s \in Sims :
        TurnErrored(s)
        => /\ Count(published[s], ErrorEvent) = 1
           /\ Count(published[s], StatusEvent("error")) = 1
           /\ \A i \in DOMAIN published[s] :
                 published[s][i] = ErrorEvent
                 => i < Len(published[s]) /\ published[s][i + 1] = StatusEvent("error")
           /\ StatusEvent("finished") \notin Range(published[s])
           /\ StatusEvent("stopped") \notin Range(published[s])
           /\ \A i \in DOMAIN run[s].messages : run[s].messages[i].turn < run[s].turn

\* The request exceeds a cap: one of those of the pre-flight (turn limit,
\* actor count, topic, stage, facilitator prompts) or an actor's prompt cap.
OverCap(r) == r.reject \/ r.long_prompt > 0

\* The events a turn publishes: status{typing}, token, message.
IsTurnEvent(ev) == ev.type \in {"token", "message"} \/ ev.status = "typing"

\* C14: a run whose request exceeds a cap executes no turn: it never publishes
\* a status{typing}, token or message event and never holds a transcript
\* entry.
C14_OverCapRejectedBeforeAnyTurn ==
    \A s \in Sims :
        OverCap(request[s])
        => /\ \A i \in DOMAIN published[s] : ~IsTurnEvent(published[s][i])
           /\ run[s].messages = <<>>

\* The run has published status{started}.
Started(s) == StatusEvent("started") \in Range(published[s])

\* The terminal statuses run s has published.
TerminalCount(s) ==
    Count(published[s], StatusEvent("finished")) + Count(published[s], StatusEvent("stopped"))

\* The step appends event ev as the last event of run s.
Publishes(s, ev) ==
    /\ Len(published'[s]) > Len(published[s])
    /\ published'[s][Len(published'[s])] = ev

\* C15: no run publishes more than one terminal status (finished or stopped);
\* a run that published status{started} and hit no turn error has published
\* exactly one when its task is done; status{finished} is published only
\* while the cancellation signal is unset, status{stopped} only with it set.
C15_OneTerminalStatus ==
    /\ [](\A s \in Sims :
             /\ TerminalCount(s) <= 1
             /\ Started(s) /\ ~TurnErrored(s) /\ task_done(s) => TerminalCount(s) = 1)
    /\ [][\A s \in Sims :
             /\ Publishes(s, StatusEvent("finished")) => ~cancel_event[s] /\ ~cancel_event'[s]
             /\ Publishes(s, StatusEvent("stopped")) => cancel_event'[s]]_vars

\* A run was cancelled after its first completed turn and has ended: started
\* and one stopped are published, finished is not.
C15_Witness ==
    \E s \in Sims :
        /\ task_done(s)
        /\ Started(s)
        /\ cancel_event[s]
        /\ Len(run[s].messages) >= 1
        /\ Count(published[s], StatusEvent("stopped")) = 1
        /\ StatusEvent("finished") \notin Range(published[s])

\* C16: every sink's queue has a finite capacity, and its length never
\* exceeds it however many events are published while nothing drains it.
C16_SinksAreBounded ==
    \A h \in Handles :
        /\ QueueMaxsize > 0
        /\ Len(queue[h].items) <= QueueMaxsize

\* a is a subsequence of b: b with some elements left out, order kept.
RECURSIVE IsSubsequence(_, _)
IsSubsequence(a, b) ==
    IF a = <<>> THEN TRUE
    ELSE IF b = <<>> THEN FALSE
    ELSE IF Head(a) = Head(b) THEN IsSubsequence(Tail(a), Tail(b))
    ELSE IsSubsequence(a, Tail(b))

\* The events of log past its first n.
Past(log, n) == SubSeq(log, n + 1, Len(log))

\* C17: what a sink has received is a subsequence of the publish order of its
\* run; a step only appends to it, and what it appends is a subsequence of the
\* events published in that step (nothing twice, nothing out of order, nothing
\* from before the subscription); a sink that is not registered receives
\* nothing, and a fresh sink starts empty.
C17_PerSinkFifo ==
    /\ [](\A h \in Handles : IsSubsequence(queue[h].items, published[queue[h].sim]))
    /\ [][/\ \A h \in Handles :
               LET s == queue[h].sim
                   got == Len(queue[h].items)
               IN  /\ Len(queue'[h].items) >= got
                   /\ SubSeq(queue'[h].items, 1, got) = queue[h].items
                   /\ IsSubsequence(Past(queue'[h].items, got),
                                    Past(published'[s], Len(published[s])))
                   /\ h \notin subscribers[s] => queue'[h].items = queue[h].items
          /\ Len(queue') > Len(queue) => queue'[Len(queue')].items = <<>>]_vars

\* A sink that subscribed after the first event and unsubscribed before the
\* last holds a proper part of the publish order, while another sink is still
\* registered.
C17_Witness ==
    \E h \in Handles :
        LET s == queue[h].sim
        IN  /\ h \notin subscribers[s]
            /\ subscribers[s] # {}
            /\ queue[h].items # <<>>
            /\ queue[h].items[1] # published[s][1]
            /\ Len(queue[h].items) + 2 <= Len(published[s])
            /\ published[s][Len(published[s])] = StatusEvent("finished")

\* The last completed turn of run s was a facilitator turn that returned
\* terminate=true (the flag stays until another turn completes).
Terminated(s) == run[s].terminate

\* C18: the facilitator turn that returns terminate=true appends its message
\* to the transcript and publishes it; from then on no turn starts (the turn
\* counters, the transcript and the message events stay as they are) and the
\* task, once done, has published status{finished}, or status{stopped} with
\* the cancellation signal set, and no error.
C18_TerminateEndsRun ==
    /\ [][\A s \in Sims :
            /\ ~Terminated(s) /\ Terminated(s)'
               => /\ IsFacilitatorRole(run[s].role)
                  /\ run'[s].messages =
                        Append(run[s].messages,
                               TranscriptMessage(run[s].role, run[s].agent_id, run[s].turn))
                  /\ Publishes(s, MessageEvent(run[s].turn, run[s].role, run[s].agent_id))
            /\ Terminated(s)
               => /\ Terminated(s)'
                  /\ run'[s].turn = run[s].turn
                  /\ run'[s].actor_turns = run[s].actor_turns
                  /\ run'[s].messages = run[s].messages
                  /\ pc'[s] \notin {"for_head", "turn_build", "stream", "turn_error"}
                  /\ \A i \in DOMAIN published'[s] :
                        i > Len(published[s]) => ~IsTurnEvent(published'[s][i])]_vars
    /\ [](\A s \in Sims :
             Terminated(s) /\ task_done(s)
             => /\ ErrorEvent \notin Range(published[s])
                /\ \/ StatusEvent("finished") \in Range(published[s])
                   \/ cancel_event[s] /\ StatusEvent("stopped") \in Range(published[s]))

\* A scheduled synthesizer turn terminated a collaboration that had actor
\* turns left and a closing synthesizer call due; the run has finished with
\* the synthesizer's message as its last.
C18_Witness ==
    \E s \in Sims :
        /\ Terminated(s)
        /\ task_done(s)
        /\ run[s].site = "synth"
        /\ run[s].terminated_early
        /\ request[s].synthesizer.enabled
        /\ run[s].actor_turns < request[s].turn_limit
        /\ run[s].messages[Len(run[s].messages)].role = "synthesizer"
        /\ Count(published[s], StatusEvent("finished")) = 1

\* The actor turns of run s that reached their token stream.
ActorTypingCount(s) ==
    Cardinality({ i \in DOMAIN published[s] :
                    published[s][i].status = "typing" /\ published[s][i].agent_id >= 1 })

\* The step starts a facilitator turn of run s.
StartsFacilitatorTurn(s) ==
    /\ run'[s].turn = run[s].turn + 1
    /\ IsFacilitatorRole(run'[s].role)
    /\ pc'[s] = "turn_build"

\* C19: the actor turns a run has started never exceed N * T (N actors, turn
\* limit T), and starting a facilitator turn leaves the count of actor turns
\* as it is.
C19_ActorTurnBudget ==
    /\ [](\A s \in Sims :
             /\ run[s].actor_turns <= request[s].n_agents * request[s].turn_limit
             /\ ActorTypingCount(s) <= run[s].actor_turns)
    /\ [][\A s \in Sims :
             StartsFacilitatorTurn(s) => run'[s].actor_turns = run[s].actor_turns]_vars

\* A debate has used its whole turn limit, with moderator turns in between
\* that took turn indices and no actor turn.
C19_Witness ==
    \E s \in Sims :
        /\ task_done(s)
        /\ request[s].moderator.enabled
        /\ run[s].actor_turns = request[s].turn_limit
        /\ run[s].turn > run[s].actor_turns
        /\ ActorTypingCount(s) = run[s].actor_turns
        /\ \E i \in DOMAIN run[s].messages : run[s].messages[i].role = "moderator"

\* The text is a well-formed termination payload: an object with a boolean
\* terminate and a string message.
WellFormedPayload(t) ==
    ~t.blank /\ t.span = "valid" /\ t.terminate \in {"true", "false"} /\ t.message = "string"

\* The text makes the parse fall back: no brace span, a span that is not JSON,
\* or an object without a string message.
FallbackPayload(t) == t.blank \/ t.span # "valid" \/ t.message # "string"

\* C20: when a facilitator turn returns, a well-formed payload, fenced or not,
\* has given the object's terminate and message; a text with no brace span,
\* with an invalid span or with no string message has given terminate=false
\* and the original trimmed text, so it does not terminate the run.
C20_TerminationPayloadParsing ==
    \A s \in Sims :
        pc[s] = "turn_return" /\ IsFacilitatorRole(run[s].role)
        => LET t == run[s].full
           IN  /\ WellFormedPayload(t)
                  => /\ run[s].terminate = (t.terminate = "true")
                     /\ run[s].final_content = "field"
               /\ FallbackPayload(t)
                  => /\ ~run[s].terminate
                     /\ run[s].final_content = stripped(t)

\* C21: a finalized transcript is never modified or cleared by a later step,
\* whatever it is (stop, subscribe, unsubscribe, another simulation created
\* and run), and a stored RunState stays in the registry with its request.
C21_TranscriptSetOnce ==
    [][\A s \in Sims :
          /\ s \in DOMAIN request'
          /\ request'[s] = request[s]
          /\ transcript[s] # <<>> => transcript'[s] = transcript[s]]_vars

\* The first simulation failed in a turn, was finalized and was stopped
\* afterwards; a second simulation is streaming; the transcript of the first
\* is still the one its run sealed.
C21_Witness ==
    /\ Len(request) = 2
    /\ TurnErrored(1)
    /\ finished_event[1]
    /\ stop_calls[1] >= 1
    /\ pc[2] = "stream"
    /\ transcript[1] = <<run[1].messages>>

\* The step is a call of start on the stored state s.
StartStep(s) == response'.op = "start_task" /\ response'.id = s

\* C22: a call of start on a state whose task is set, running or completed,
\* changes no state (no second task, nothing restarted), and the task of a
\* state never returns to its starting position.
C22_StartOncePerRunState ==
    [][\A s \in Sims :
          /\ StartStep(s) /\ pc[s] # "none" => UNCHANGED stateVars
          /\ pc[s] # "created" => pc'[s] # "created"]_vars

\* start was just called again on a run that is streaming a turn.
C22_Witness ==
    \E s \in Sims :
        /\ response = [op |-> "start_task", id |-> s, ok |-> TRUE]
        /\ pc[s] = "stream"
        /\ Started(s)

\* stop(s) has just returned and found the task of s not done.
StopReturnedOnLiveTask(s) ==
    /\ s \in Sims
    /\ response = [op |-> "stop", id |-> s, ok |-> TRUE]
    /\ ~task_done(s)

\* Run s has published status{stopped} exactly once, after a status{stopping}.
StoppedAfterStopping(s) ==
    /\ s \in Sims
    /\ Count(published[s], StatusEvent("stopped")) = 1
    /\ \E i, j \in DOMAIN published[s] :
          /\ i < j
          /\ published[s][i] = StatusEvent("stopping")
          /\ published[s][j] = StatusEvent("stopped")

\* The step starts a turn of run s: a generation call is opened and
\* status{typing} published.
StartsTurn(s) == pc[s] = "turn_build" /\ pc'[s] = "stream"

\* C23, the part that holds at every step: a stop that finds the task not done
\* sets the cancellation signal and publishes status{stopping}, and no turn
\* starts once stop has been called.
C23_StopSafety ==
    [][\A s \in Sims :
          /\ StopStep(s) /\ ~task_done(s)
             => cancel_event'[s] /\ Publishes(s, StatusEvent("stopping"))
          /\ stop_calls[s] >= 1 => ~StartsTurn(s)]_vars

\* C23: after a stop that found the task not done, the run eventually has its
\* completion signal set and has published status{stopped} exactly once,
\* after status{stopping}.
C23_StopLeadsToStopped ==
    \A s \in 1..MaxSims :
        StopReturnedOnLiveTask(s)
            ~> (s \in Sims /\ finished_event[s] /\ StoppedAfterStopping(s))

\* The step publishes a status{typing} event of run s.
PublishesTyping(s) ==
    \E i \in DOMAIN published'[s] :
        i > Len(published[s]) /\ published'[s][i].status = "typing"

\* C24: in a run whose cancellation signal is set, no step starts a turn: none
\* publishes status{typing} and none opens a generation call, whether the
\* signal was set by stop, by the last unsubscribe or by an idle timeout.
C24_NoTurnAfterCancel ==
    [][\A s \in Sims : cancel_event[s] => ~PublishesTyping(s) /\ ~StartsTurn(s)]_vars

\* A run was cancelled while its first turn was streaming and its task has
\* ended: one status{typing}, no message, status{stopped} published.
C24_Witness ==
    \E s \in Sims :
        /\ cancel_event[s] /\ task_done(s)
        /\ Cardinality({ i \in DOMAIN published[s] : published[s][i].status = "typing" }) = 1
        /\ MessageEvents(published[s]) = <<>>
        /\ StatusEvent("stopped") \in Range(published[s])

\* The actor-turn budget of run s is used up.
BudgetExhausted(s) == run[s].actor_turns >= request[s].turn_limit

\* The cadence of the claim for a facilitator of frequency f: the actor turns
\* executed so far are a positive multiple of 2 * f, or the budget is used up.
CadenceDue(s, f) ==
    \/ run[s].actor_turns > 0 /\ run[s].actor_turns % (2 * f) = 0
    \/ BudgetExhausted(s)

\* The step decides on the facilitator of run s after a completed round, the
\* facilitator enabled, matching the mode, and the run not cancelled.
FacilitatorDecision(s, at) ==
    /\ pc[s] = at
    /\ LET r == request[s]
       IN  IF at = "mod_check"
           THEN r.moderator.enabled /\ r.moderator.model /\ r.mode = "debate"
           ELSE r.synthesizer.enabled /\ r.synthesizer.model /\ r.mode = "collaboration"
    /\ ~cancel_event[s]
    /\ run[s].executed_agents = request[s].n_agents

\* C25: after a completed round the enabled, mode-matching facilitator is
\* invoked exactly when the actor turns executed so far are a positive
\* multiple of 2 * frequency_turns or the budget is used up, with final_call
\* true exactly when the budget is used up.  (A synthesizer that the schedule
\* skips on the last round is invoked by the closing call after the loop, so
\* only its invocations before the budget is used up are required here.)
C25_FacilitatorCadence ==
    [][\A s \in Sims :
          /\ FacilitatorDecision(s, "mod_check")
             => /\ StartsFacilitatorTurn(s)
                    <=> CadenceDue(s, request[s].moderator.frequency_turns)
                /\ StartsFacilitatorTurn(s)
                    => (run'[s].final_call <=> BudgetExhausted(s))
          /\ FacilitatorDecision(s, "synth_check")
             => /\ StartsFacilitatorTurn(s)
                    => CadenceDue(s, request[s].synthesizer.frequency_turns)
                /\ CadenceDue(s, request[s].synthesizer.frequency_turns)
                   /\ ~BudgetExhausted(s)
                    => StartsFacilitatorTurn(s)
                /\ StartsFacilitatorTurn(s)
                    => (run'[s].final_call <=> BudgetExhausted(s))]_vars

\* The transcript entries of run s: those accumulated by the loop and those
\* of the sealed transcript.
TranscriptEntries(s) ==
    Range(run[s].messages)
        \cup (IF transcript[s] = <<>> THEN {} ELSE Range(transcript[s][1]))

BlockRank(ev) ==
    IF ev.status = "typing" THEN 0 ELSE IF ev.type = "token" THEN 1 ELSE 2

\* The turn events of log form contiguous blocks, one per turn, each a
\* status{typing}, then tokens, then at most one message.
TurnBlocks(log) ==
    LET T == { i \in DOMAIN log : IsTurnEvent(log[i]) }
    IN  /\ \A i, j \in T :
              i < j =>
                /\ log[i].turn <= log[j].turn
                /\ log[i].turn = log[j].turn
                     => /\ BlockRank(log[i]) <= BlockRank(log[j])
                        /\ BlockRank(log[i]) = BlockRank(log[j])
                             => log[i].type = "token"
        /\ \A j \in T :
              BlockRank(log[j]) > 0
                => \E i \in T : i < j /\ log[i] = TypingEvent(log[j].turn, log[j].agent_id)

\* C27: in the publish order of a run the events of each turn form one
\* contiguous block (status{typing}, then the turn's tokens, then at most one
\* message), no turn event of another turn lies inside it, and message
\* events come in strictly increasing turn order.
C27_TurnEventsContiguous ==
    \A s \in Sims :
        /\ TurnBlocks(published[s])
        /\ LET M == MessageEvents(published[s])
           IN  \A i, j \in DOMAIN M : i < j => M[i].turn < M[j].turn

\* Two turns have completed, the second with tokens, and a third is
\* streaming.
C27_Witness ==
    \E s \in Sims :
        /\ Len(MessageEvents(published[s])) >= 2
        /\ \E i \in DOMAIN published[s] :
              published[s][i].type = "token" /\ published[s][i].turn = 2
        /\ pc[s] = "stream" /\ run[s].turn = 3

\* The message event that mirrors a transcript entry.
MirrorOf(m) == MessageEvent(m.turn, m.role, m.agent_id)

\* The message events of run s are, in order, the mirrors of its transcript
\* entries.
Mirrored(s) ==
    LET M == MessageEvents(published[s])
    IN  /\ Len(M) = Len(run[s].messages)
        /\ \A i \in DOMAIN M : M[i] = MirrorOf(run[s].messages[i])

\* The step completes a turn of run s: the token stream is exhausted.
CompletesTurn(s) == pc[s] = "stream" /\ pc'[s] = "turn_return" /\ ~cancel_req[s]

\* C28: transcript entries and message events correspond one to one, in
\* order and with the same role, turn and agent id; the transcript changes
\* only by the append of one entry in the step that completes a turn, which
\* also publishes the mirroring message event, and no other step publishes a
\* message event.
C28_EntriesMirrorMessages ==
    /\ [](\A s \in Sims : Mirrored(s))
    /\ [][\A s \in Sims :
            /\ run'[s].messages # run[s].messages
               => /\ CompletesTurn(s)
                  /\ \E m \in [role : {"agent", "moderator", "synthesizer"},
                               agent_id : -2..MaxActors, turn : 1..(run[s].turn)] :
                        /\ run'[s].messages = Append(run[s].messages, m)
                        /\ Publishes(s, MirrorOf(m))
            /\ Len(MessageEvents(published'[s])) # Len(MessageEvents(published[s]))
               => run'[s].messages # run[s].messages]_vars

\* A run ended cleanly with an agent's and a facilitator's entry in its sealed
\* transcript.
C28_Witness ==
    \E s \in Sims :
        /\ RunClean(s)
        /\ transcript[s] = <<run[s].messages>>
        /\ \E i, j \in DOMAIN run[s].messages :
              /\ run[s].messages[i].role = "agent"
              /\ IsFacilitatorRole(run[s].messages[j].role)

\* The role and the agent id of x agree, in a run of n actors.
SignedId(x, n) ==
    /\ x.role \in {"agent", "moderator", "synthesizer"}
    /\ x.role = "agent" <=> x.agent_id \in 1..n
    /\ x.role = "moderator" <=> x.agent_id = -1
    /\ x.role = "synthesizer" <=> x.agent_id = -2

\* The entries of the actors, in transcript order.
AgentEntries(msgs) == SelectSeq(msgs, LAMBDA m : m.role = "agent")

\* C29: every transcript entry, token event and message event carries an
\* agent id in 1..N exactly when its role is agent, -1 exactly when it is
\* moderator and -2 exactly when it is synthesizer; an actor's id is its
\* 1-based position in the request, the actors speaking in request order.
C29_SignedAgentIds ==
    \A s \in Sims :
        LET n == request[s].n_agents
            A == AgentEntries(run[s].messages)
        IN  /\ \A m \in TranscriptEntries(s) : SignedId(m, n)
            /\ \A i \in DOMAIN published[s] :
                  published[s][i].type \in {"token", "message"}
                    => SignedId(published[s][i], n)
            /\ \A i \in DOMAIN A : A[i].agent_id = ((i - 1) % n) + 1

\* The last actor and the synthesizer have both streamed a token and had
\* their message published.
C29_Witness ==
    \E s \in Sims :
        /\ TokenEvent(request[s].n_agents, "agent", request[s].n_agents)
              \in Range(published[s])
        /\ \E t \in 1..(run[s].turn) :
              /\ TokenEvent(t, "synthesizer", -2) \in Range(published[s])
              /\ MessageEvent(t, "synthesizer", -2) \in Range(published[s])
        /\ \E m \in TranscriptEntries(s) : m.agent_id = request[s].n_agents

\* The crash handler of run s has run: an error event went out that no
\* status{error} accompanies (a failed turn publishes both and returns).
Crashed(s) ==
    /\ pc[s] \in {"runner_finally", "done"}
    /\ ErrorEvent \in Range(published[s])
    /\ StatusEvent("error") \notin Range(published[s])

\* C30: an exception other than a cancellation that leaves run_simulation is
\* caught by the task: the handler publishes exactly one error event and
\* leaves the cancellation signal as it is, then the task sets the completion
\* signal and ends; the run has then published exactly one error event.
C30_CrashHandled ==
    /\ [][\A s \in Sims :
            /\ pc[s] = "runner_except"
               => /\ pc'[s] = "runner_finally"
                  /\ published'[s] = Append(published[s], ErrorEvent)
                  /\ cancel_event'[s] = cancel_event[s]
            /\ pc[s] = "runner_finally"
               => pc'[s] = "done" /\ finished_event'[s]
                  /\ cancel_event'[s] = cancel_event[s]
                  /\ published'[s] = published[s]]_vars
    /\ [](\A s \in Sims :
            Crashed(s) => /\ Count(published[s], ErrorEvent) = 1
                          /\ pc[s] = "done" => finished_event[s])

\* The second actor's prompt was over the cap: the run crashed after the
\* first actor's turn, and its task has ended with the cancellation signal
\* unset.
C30_Witness ==
    \E s \in Sims :
        /\ Crashed(s) /\ pc[s] = "done"
        /\ run[s].exc = "error"
        /\ ~cancel_event[s]
        /\ Len(MessageEvents(published[s])) = 1

\* The events that the step publishes for run s.
NewEvents(s) == SubSeq(published'[s], Len(published[s]) + 1, Len(published'[s]))

\* C31: whatever subscribe and unsubscribe calls come between publishes, a
\* publish hands each event exactly once, in order, to exactly the sinks
\* registered at that moment (none is dropped, the queues being unbounded),
\* and touches no other sink.
C31_PublishToSnapshot ==
    [][\A s \in Sims :
          Len(published'[s]) > Len(published[s])
            => /\ Handles' = Handles
               /\ \A h \in Handles :
                    IF h \in subscribers[s]
                    THEN queue'[h].items = queue[h].items \o NewEvents(s)
                    ELSE queue'[h] = queue[h]]_vars

\* A sink was removed and another registered later, between publishes: the
\* removed one holds events and misses the latest, the later one holds the
\* latest and misses the earliest.
C31_Witness ==
    \E s \in Sims : \E h1, h2 \in Handles :
        /\ queue[h1].sim = s /\ queue[h2].sim = s
        /\ h1 \notin subscribers[s] /\ h2 \in subscribers[s]
        /\ queue[h1].items # <<>> /\ queue[h2].items # <<>>
        /\ queue[h2].items[Len(queue[h2].items)] = published[s][Len(published[s])]
        /\ queue[h2].items[1] # published[s][1]
        /\ Len(queue[h1].items) < Len(published[s])
        /\ queue[h1].items[1] = published[s][1]

\* The transcript positions carried by the messages of a context, in order.
RECURSIVE Carried(_)
Carried(ctx) == IF ctx = <<>> THEN <<>> ELSE Head(ctx).from \o Carried(Tail(ctx))

\* ctx is a well-formed context for the speaker (role, id) over entries: a
\* leading system message, then self and other messages in strict
\* alternation; a self message carries one own entry, an other message a run
\* of other speakers' entries; together they carry every entry once, in
\* transcript order; there is at least one message after the system message.
WellFormedContext(ctx, role, id, entries) ==
    /\ Len(ctx) >= 2
    /\ ctx[1] = ContextMessage("system", <<>>)
    /\ \A i \in 2..Len(ctx) :
          /\ ctx[i].kind \in {"self", "other"}
          /\ ctx[i].kind = "self"
               => /\ Len(ctx[i].from) = 1
                  /\ is_self_message(entries[ctx[i].from[1]], role, id)
          /\ ctx[i].kind = "other"
               => \A k \in DOMAIN ctx[i].from :
                     ~is_self_message(entries[ctx[i].from[k]], role, id)
          /\ i < Len(ctx) => ctx[i].kind # ctx[i + 1].kind
    /\ Carried(ctx) = [k \in 1..Len(entries) |-> k]
    /\ entries = <<>> => ctx[2] = ContextMessage("other", <<>>)

\* C32: the context built for the speaker of every turn is one system
\* message followed by strictly alternating self and merged other messages
\* that carry the transcript in order, with the opening prompt when the
\* transcript is empty.
C32_ContextAlternates ==
    \A s \in Sims :
        pc[s] = "stream"
          => WellFormedContext(run[s].context, run[s].role, run[s].agent_id,
                               run[s].messages)

\* The first actor's second turn is streaming after a facilitator's turn: its
\* context is system, self, one other message merging two entries.
C32_Witness ==
    \E s \in Sims :
        /\ pc[s] = "stream" /\ run[s].role = "agent"
        /\ Len(run[s].context) = 3
        /\ run[s].context[2].kind = "self"
        /\ Len(run[s].context[3].from) = 2

\* A sink has been registered for run s at some moment (a queue handed out
\* by subscribe stays in the model after its removal).
EverSubscribed(s) == \E h \in Handles : queue[h].sim = s

\* C33: with idle shutdown enabled a run publishes status{started} only if a
\* sink was registered for it before; with idle shutdown disabled the run
\* never waits for a subscriber: it leaves the orphan wait at once for
\* status{started}.
C33_StartedNeedsSubscriber ==
    [][\A s \in Sims :
          /\ idle_enabled /\ Publishes(s, StatusEvent("started")) => EverSubscribed(s)
          /\ ~idle_enabled
               => /\ pc'[s] # "orphan_sleep"
                  /\ pc[s] = "orphan_wait" /\ pc'[s] # pc[s]
                       => pc'[s] = "publish_started"]_vars

\* With idle shutdown enabled a sink was registered during the orphan wait
\* and status{started} was the first event that sink received.
C33_Witness ==
    \E s \in Sims : \E h \in subscribers[s] :
        /\ idle_enabled
        /\ StatusEvent("started") \in Range(published[s])
        /\ queue[h].items # <<>> /\ queue[h].items[1] = StatusEvent("started")

\* Run s is at a round boundary, its budget and its cancellation signal
\* letting the loop go on.
AtRoundBoundary(s) ==
    /\ pc[s] = "while_head"
    /\ run[s].actor_turns < request[s].turn_limit
    /\ ~cancel_event[s]

\* The idle condition of runner.py:352-358.
IdleMidRun(s) == idle_enabled /\ subscribers[s] = {} /\ age[s] >= GraceTicks

\* C34: at a round boundary the idle condition makes the loop set the
\* cancellation signal and leave for the terminal status without a further
\* turn; otherwise the next round proceeds.
C34_IdleRoundBoundary ==
    [][\A s \in Sims :
          AtRoundBoundary(s) /\ pc'[s] # pc[s]
            => IF IdleMidRun(s)
               THEN cancel_event'[s] /\ pc'[s] = "final_synth"
               ELSE ~cancel_event'[s] /\ pc'[s] = "for_head"]_vars

\* C34, reachability of its case: with idle shutdown enabled a run at a round
\* boundary always has a registered sink, since the removal of the last sink
\* cancels the task at once and the orphan wait lets no run start without one.
C34_BoundaryHasSink ==
    \A s \in Sims : AtRoundBoundary(s) /\ idle_enabled => subscribers[s] # {}

\* C35: the cancellation signal and the completion signal are one-shot: no
\* step (stop, subscribe, unsubscribe, start, or a step of the run, publishes
\* included) clears either once it is set.
C35_SignalsMonotonic ==
    [][\A s \in Sims :
          /\ cancel_event[s] => cancel_event'[s]
          /\ finished_event[s] => finished_event'[s]]_vars

\* Both signals of a run are set, it was stopped, and a sink was registered
\* for it after that: subscribe has just returned.
C35_Witness ==
    \E s \in Sims :
        /\ cancel_event[s] /\ finished_event[s]
        /\ stop_calls[s] >= 1
        /\ response = [op |-> "subscribe", id |-> s, ok |-> TRUE]

\* The agent id that run_facilitator gives a role.
FacilitatorId(role) == IF role = "moderator" THEN -1 ELSE -2

\* The call of run_facilitator on s is in its turn.
InFacilitatorTurn(s) == pc[s] \in {"fac_build", "fac_stream", "fac_except"}

\* C36: run_facilitator runs its turn under index turn + 1 (the index changes
\* once, on entry) with agent id -1 for the moderator and -2 for the
\* synthesizer, on its events and its entry; it returns the parsed terminate
\* with turn + 1; on an error it publishes exactly error then status{error},
\* appends nothing, and raises again.
C36_RunFacilitator ==
    /\ [][\A s \in Sims :
            /\ run'[s].turn # run[s].turn
               => pc[s] = "fac_call" /\ run'[s].turn = run[s].turn + 1
            /\ pc[s] = "fac_call" /\ pc'[s] # pc[s]
               => /\ run'[s].turn = run[s].turn + 1
                  /\ run'[s].agent_id = FacilitatorId(run[s].role)
            /\ InFacilitatorTurn(s)
               => \A i \in DOMAIN NewEvents(s) :
                     LET ev == NewEvents(s)[i]
                     IN  IsTurnEvent(ev)
                           => /\ ev.turn = run[s].turn
                              /\ ev.agent_id = FacilitatorId(run[s].role)
            /\ InFacilitatorTurn(s) /\ pc'[s] = "fac_returned"
               => /\ run'[s].turn = run[s].turn
                  /\ \/ /\ cancel_event[s]
                        /\ ~run'[s].terminate /\ run'[s].messages = run[s].messages
                     \/ /\ run'[s].messages =
                              Append(run[s].messages,
                                     TranscriptMessage(run[s].role,
                                        FacilitatorId(run[s].role), run[s].turn))
                        /\ run'[s].terminate =
                              parse_termination_payload(run'[s].full).terminate
            /\ pc[s] = "fac_except"
               => /\ pc'[s] = "fac_raised"
                  /\ NewEvents(s) = <<ErrorEvent, StatusEvent("error")>>
                  /\ run'[s].messages = run[s].messages]_vars
    /\ [](\A s \in Sims :
            pc[s] = "fac_raised"
              => /\ Count(published[s], ErrorEvent) = 1
                 /\ Count(published[s], StatusEvent("error")) = 1
                 /\ published[s][Len(published[s])] = StatusEvent("error")
                 /\ MessageEvents(published[s]) = <<>>
                 /\ \A m \in Range(run[s].messages) : m.turn < run[s].turn)

\* The synthesizer's call on a two-entry transcript failed mid-stream, after a
\* token: error and status{error} reached the sink, nothing was appended.
C36_Witness ==
    \E s \in Sims : \E h \in subscribers[s] :
        /\ pc[s] = "fac_raised" /\ run[s].role = "synthesizer"
        /\ run[s].turn = 3 /\ Len(run[s].messages) = 2
        /\ queue[h].items = <<TypingEvent(3, -2), TokenEvent(3, "synthesizer", -2),
                              ErrorEvent, StatusEvent("error")>>

\* The step is an unsubscribe on s that removes no sink: its handle was
\* never registered or was removed before.
UnregisteredUnsubscribeStep(s) ==
    UnsubscribeStep(s) /\ subscribers'[s] = subscribers[s]

\* C37: an unsubscribe with a handle that is not registered leaves the sink
\* set, the cancellation signal and the background task unchanged, whatever
\* the sink set and the task are: only the removal of a registered last sink
\* cancels a run.
C37_UnregisteredUnsubscribeNoOp ==
    [][\A s \in Sims :
          /\ UnregisteredUnsubscribeStep(s)
             => /\ cancel_event'[s] = cancel_event[s]
                /\ cancel_req'[s] = cancel_req[s]
                /\ pc'[s] = pc[s]
          /\ UnsubscribeStep(s) /\ cancel_event'[s] /\ ~cancel_event[s]
             => subscribers[s] # {} /\ subscribers'[s] = {}]_vars

\* C38: once the completion signal of a run is set none of its sinks
\* receives a further event, whatever is called afterwards.
C38_NothingAfterCompletion ==
    [][\A s \in Sims :
          finished_event[s]
            => \A h \in Handles :
                  queue[h].sim = s => queue'[h].items = queue[h].items]_vars

\* C39: a sealed transcript holds no two adjacent facilitator entries.
C39_NoAdjacentFacilitatorEntries ==
    \A s \in Sims :
        transcript[s] # <<>>
          => LET msgs == transcript[s][1]
             IN  \A i \in 1..(Len(msgs) - 1) :
                    ~(IsFacilitatorRole(msgs[i].role)
                        /\ IsFacilitatorRole(msgs[i + 1].role))

\* The events that only the background task of a run publishes at its end or
\* on a failure.
IsTaskOutcomeEvent(ev) ==
    ev \in {StatusEvent("stopped"), StatusEvent("finished"), StatusEvent("error"),
            ErrorEvent}

\* C40: in the publish order of a run status{started} comes before every
\* status{stopped}, status{finished}, status{error} and error event.
C40_StartedPrecedesOutcome ==
    \A s \in Sims : \A i \in DOMAIN published[s] :
        IsTaskOutcomeEvent(published[s][i])
          => \E j \in 1..(i - 1) : published[s][j] = StatusEvent("started")

====
